---- MODULE Spec2Model ----
(***************************************************************************)
(* Model of the real-time message plane of prism-messenger-server:        *)
(* the WebSocketCenter (connection registry), the per-socket transport    *)
(* tasks of handle_websocket_connection, the MessagingService             *)
(* (store-and-forward queue), the NotificationService and the             *)
(* MessageSenderService loop.                                              *)
(***************************************************************************)
EXTENDS Integers, Sequences, FiniteSets, TLC

\* ----------------------------------------------------------------------
\* Bounds
\* ----------------------------------------------------------------------
MaxConns == 2
MaxQueueConns == 1
MaxMsgs == 2
MaxTime == 1
MaxChan == 1
MaxDbFaults == 1
MaxLiveMsgs == 1
MaxRegCalls == 2
MaxKeyCalls == 3
MaxKeyIdx == 2
MaxHeaderLen == 3
MaxVerifyCalls == 2
MaxRelays == 1
MaxPresenceTasks == 2
MaxBatch == 2
NumConnectHandlers == 2

\* ----------------------------------------------------------------------
\* Value spaces
\* ----------------------------------------------------------------------
Accounts == {"alice", "bob"}
Bodies == {"x", "y"}
Conns == 1..MaxConns
MsgIds == 1..MaxMsgs
Timestamps == 1..MaxTime
NoConn == 0
NoAccount == "nobody"
ConnectHandlers == 1..NumConnectHandlers
AccountRows == {"absent", "apns", "gcm_only"}
PresenceAnswers == BOOLEAN
KeyStores == {"inmemory", "sqlite"}
KeyIdxs == 1..MaxKeyIdx
KeyBatches == UNION {[1..n -> KeyIdxs] : n \in 0..MaxBatch}
RegPaths == {"username", "phone"}
RegNames == {"carol", "dave"}
HeaderChars == {"a", "b", ":"}
HeaderTexts == UNION {[1..n -> HeaderChars] : n \in 0..MaxHeaderLen}
VerifyCalls == 1..MaxVerifyCalls
RawPhones == {"+15550001", "+1 555 0001", "+15550002", "5550001"}
OtpSendOutcomes == {"send_failed", "http_error", "sent"}
OtpCheckOutcomes ==
    {"send_failed", "http_error", "bad_json", "pending", "approved_sign_failed",
     "approved"}
RegistryOutcomes == {"sign_failed", "rejected", "accepted"}
PresenceUpdates == [account_id : Accounts, status : {"Online", "Offline"}]

VARIABLES
    connections,      \* WebSocketCenter.connections: account -> sink (NoConn = no entry)
    txAlive,          \* per channel: the UnboundedSender half still exists
    rxAlive,          \* per channel: the UnboundedReceiver half still exists
    chan,             \* per channel: frames pushed and not yet received
    connectFired,     \* per connect handler and account: number of invocations
    disconnectFired,  \* per account: number of disconnect-handler rounds
    lastEvent,        \* per account: latest map mutation ("none", "add", "remove")
    lastAdded,        \* per account: sink of the latest add_connection
    addsDone,         \* per account: number of completed add_connection calls
    wsAccount,        \* per socket: the authenticated account
    wsPc,             \* per socket: position of handle_websocket_connection
    outgoing,         \* per socket: state of outgoing_task
    incoming,         \* per socket: state of incoming_task
    sockOpen,         \* per socket: the peer still holds the socket open
    queue,            \* InMemoryDatabase.messages: recipient -> Vec<Message>
    nextId,           \* next fresh message id (Uuid::new_v4)
    dbUp,             \* the queue store answers Ok (TRUE) or Err (FALSE)
    dbFaults,         \* number of store outages so far
    sm,               \* the send_message call in flight
    tickPc,           \* sender loop: "idle" or "sending"
    batch,            \* sender loop: rest of the get_all_messages batch
    pushCount,        \* per message id: number of pushes into a sink
    lastRet,          \* the value returned by the step just taken, if any
    reg,              \* the finalize_registration call in flight
    regCalls,         \* number of finalize calls started
    regPosted,        \* number of create-account transactions sent to the registry
    accountRows,      \* account store: the rows written by upsert_account
    profileRows,      \* profile store: the rows written by upsert_profile
    keyStore,         \* the KeyDatabase behind the KeyService ("unset" before new)
    keyBundles,       \* key store, committed content: account -> bundle or NoBundle
    keyTx,            \* the upload_key_bundle call in flight (SQLite transaction)
    addCall,          \* the add_prekeys call in flight
    addOther,         \* the add_prekeys call of a second client in flight
    rd,               \* the get_keybundle call in flight
    keyCalls,         \* number of upload / add_prekeys calls started
    keyRet,           \* the value returned by the key operation just completed
    bc,               \* the broadcast_to_all call in flight
    authStore,        \* account store as the auth service reads it
    auth,             \* the latest request through require_auth and its answer
    pending_registrations, \* PhoneRegistrationService: phones with an OTP sent
    vcall,            \* per slot: the verify_phone_registration call in flight
    spent,            \* phones verified with no request_phone_registration since
    phoneRet,         \* the value returned by the phone operation just completed
    verified_phones,  \* phones for which verify_phone_registration has returned Ok
    handlers,         \* WebSocketCenter.handlers: the registered message tags
    relays,           \* typing relay tasks spawned and not yet run
    rx,               \* how the latest on_message_received ended, and the one before
    presenceOn,       \* handle_presence_updates has registered its two handlers
    presenceTasks,    \* per update: broadcast tasks spawned and not yet started
    pb,               \* the presence broadcast in flight
    seen              \* per observer and account: the latest presence frame written

centerVars == <<connections, txAlive, rxAlive, chan, connectFired, disconnectFired,
                lastEvent, lastAdded, addsDone>>
wsVars == <<wsAccount, wsPc, outgoing, incoming, sockOpen>>
msgVars == <<queue, nextId, dbUp, dbFaults, sm>>
loopVars == <<tickPc, batch, pushCount>>
regVars == <<reg, regCalls, regPosted, accountRows, profileRows>>
keyVars == <<keyStore, keyBundles, keyTx, addCall, addOther, rd, keyCalls, keyRet>>
bcVars == <<bc>>
authVars == <<authStore, auth>>
phoneVars == <<pending_registrations, vcall, spent, phoneRet, verified_phones>>
inVars == <<handlers, relays, rx>>
presVars == <<presenceOn, presenceTasks, pb, seen>>
restVars == <<authVars, phoneVars, inVars, presVars>>
sideVars == <<regVars, keyVars, bcVars, restVars>>
vars == <<centerVars, wsVars, msgVars, loopVars, lastRet, sideVars>>

\* A returned value: the operation, its result, and for send_message the
\* receipt and the number of wake-up notifications the call invoked.
Ret(op, result) ==
    [op |-> op, result |-> result, message_id |-> 0, timestamp |-> 0, wakeups |-> 0]

\* The step returned nothing to a caller.
NoRet == Ret("none", "none")

\* ----------------------------------------------------------------------
\* WebSocketCenter
\* ----------------------------------------------------------------------

\* has_connection: contains_key on the map
has_connection(a) == connections[a] # NoConn

\* Frames carried by the sinks
MessageFrame(m) == [type |-> "message", id |-> m.message_id]
TypingFrame == [type |-> "typing", id |-> 0]

\* HashMap::insert of add_connection: the entry is replaced and the evicted
\* WebSocketConnection (with its sender half) is dropped.
InsertConnection(a, c) ==
    /\ connections' = [connections EXCEPT ![a] = c]
    /\ txAlive' = [k \in Conns |->
                      IF k = c THEN TRUE
                      ELSE IF k = connections[a] THEN FALSE
                      ELSE txAlive[k]]

\* Variant: the entry is left in the map.
RemoveEntry_KeepsEntry(a) ==
    /\ connections' = connections
    /\ txAlive' = txAlive

\* HashMap::remove of remove_connection: keyed by the account id only.
RemoveEntry(a) ==
    /\ connections' = [connections EXCEPT ![a] = NoConn]
    /\ txAlive' = [k \in Conns |-> IF k = connections[a] THEN FALSE ELSE txAlive[k]]

PresenceUpdate(a, status) == [account_id |-> a, status |-> status]

IdlePresence == [pc |-> "idle", update |-> PresenceUpdate(NoAccount, "Offline"), pending |-> {}]

PendingPresenceTasks(tasks) ==
    LET RECURSIVE Sum(_)
        Sum(S) == IF S = {} THEN 0
                  ELSE LET u == CHOOSE x \in S : TRUE IN tasks[u] + Sum(S \ {u})
    IN Sum(PresenceUpdates)

\* The closure registered by register_presence_handler, once
\* handle_presence_updates has run: it spawns a task that will broadcast
\* the update.
SpawnPresence(a, status) ==
    /\ presenceOn => PendingPresenceTasks(presenceTasks) < MaxPresenceTasks
    /\ presenceTasks' = IF presenceOn
                           THEN [presenceTasks EXCEPT ![PresenceUpdate(a, status)] = @ + 1]
                           ELSE presenceTasks

\* remove_connection: removes the entry, then runs every disconnect handler.
remove_connection(a) ==
    /\ RemoveEntry(a)
    /\ disconnectFired' = [disconnectFired EXCEPT ![a] = @ + 1]
    /\ lastEvent' = [lastEvent EXCEPT ![a] = "remove"]
    /\ SpawnPresence(a, "Offline")

\* Variant: the oldest sink of the account whose receiver is still there.
SinkOf_Oldest(a) ==
    LET own == {c \in Conns : wsAccount[c] = a /\ rxAlive[c]}
    IN IF connections[a] = NoConn \/ own = {} THEN connections[a]
       ELSE CHOOSE c \in own : \A k \in own : c <= k

\* The sink send_to_account finds for account a
SinkOf(a) == connections[a]

\* Variant: an entry whose receiver is gone is reported as missing.
SendOutcome_ClosedIsMissing(a) ==
    IF SinkOf(a) = NoConn THEN "ConnectionNotFound"
    ELSE IF rxAlive[SinkOf(a)] THEN "Ok"
    ELSE "ConnectionNotFound"

\* Variant: a missing entry is reported as a failed send.
SendOutcome_WrongKind(a) ==
    IF SinkOf(a) = NoConn THEN "SendingFailed"
    ELSE IF rxAlive[SinkOf(a)] THEN "Ok"
    ELSE "SendingFailed"

\* Result of send_to_account for account a in the current state
SendOutcome(a) ==
    IF SinkOf(a) = NoConn THEN "ConnectionNotFound"
    ELSE IF rxAlive[SinkOf(a)] THEN "Ok"
    ELSE "SendingFailed"

\* send_to_account: lookup under the read lock, push into the sink found.
send_to_account(a, frame) ==
    IF SendOutcome(a) = "Ok"
       THEN chan' = [chan EXCEPT ![SinkOf(a)] = Append(@, frame)]
       ELSE chan' = chan

\* A caller other than the sender loop (the typing relay) sends a frame.
RelaySend(a) ==
    /\ UNCHANGED sideVars
    /\ SendOutcome(a) = "Ok" => Len(chan[SinkOf(a)]) < MaxChan
    /\ send_to_account(a, TypingFrame)
    /\ lastRet' = Ret("send_to_account", SendOutcome(a))
    /\ UNCHANGED <<connections, txAlive, rxAlive, connectFired, disconnectFired,
                   lastEvent, lastAdded, addsDone>>
    /\ UNCHANGED <<wsVars, msgVars, loopVars>>

\* The frame of a presence update
PresenceFrame == [type |-> "presence", id |-> 0]

IdleBroadcast == [pc |-> "idle", snapshot |-> {}, pending |-> {}, pushed |-> {}]

\* broadcast_to_all: the account ids are collected under the read lock.
BroadcastStart ==
    /\ bc.pc = "idle"
    /\ LET ids == {a \in Accounts : has_connection(a)}
       IN bc' = [pc |-> "sending", snapshot |-> ids, pending |-> ids, pushed |-> {}]
    /\ lastRet' = NoRet
    /\ UNCHANGED <<centerVars, wsVars, msgVars, loopVars, regVars, keyVars, restVars>>

\* Variant: the first failed send ends the broadcast with its error.
BroadcastSend_Propagates(a) ==
    /\ bc.pc = "sending"
    /\ a \in bc.pending
    /\ SendOutcome(a) = "Ok" => Len(chan[SinkOf(a)]) < MaxChan
    /\ send_to_account(a, PresenceFrame)
    /\ IF SendOutcome(a) = "Ok"
          THEN /\ bc' = [bc EXCEPT !.pending = @ \ {a}, !.pushed = @ \cup {a}]
               /\ lastRet' = NoRet
          ELSE /\ bc' = IdleBroadcast
               /\ lastRet' = Ret("broadcast_to_all", SendOutcome(a))
    /\ UNCHANGED <<connections, txAlive, rxAlive, connectFired, disconnectFired,
                   lastEvent, lastAdded, addsDone>>
    /\ UNCHANGED <<wsVars, msgVars, loopVars, regVars, keyVars, restVars>>

\* broadcast_to_all: one iteration of the loop over the collected ids, in
\* the map's iteration order; an error of send_to_account is only logged.
BroadcastSend(a) ==
    /\ bc.pc = "sending"
    /\ a \in bc.pending
    /\ SendOutcome(a) = "Ok" => Len(chan[SinkOf(a)]) < MaxChan
    /\ send_to_account(a, PresenceFrame)
    /\ bc' = [bc EXCEPT !.pending = @ \ {a},
                        !.pushed = IF SendOutcome(a) = "Ok" THEN @ \cup {a} ELSE @]
    /\ lastRet' = NoRet
    /\ UNCHANGED <<connections, txAlive, rxAlive, connectFired, disconnectFired,
                   lastEvent, lastAdded, addsDone>>
    /\ UNCHANGED <<wsVars, msgVars, loopVars, regVars, keyVars, restVars>>

\* broadcast_to_all: the loop is over and the call returns Ok(()).
BroadcastEnd ==
    /\ bc.pc = "sending"
    /\ bc.pending = {}
    /\ bc' = IdleBroadcast
    /\ lastRet' = Ret("broadcast_to_all", "Ok")
    /\ UNCHANGED <<centerVars, wsVars, msgVars, loopVars, regVars, keyVars, restVars>>

\* PresenceWebSocketMessage::new: the frame of a presence update
PresenceWebSocketMessage(u) ==
    [type |-> "presence", id |-> 0, account_id |-> u.account_id,
     status |-> IF u.status = "Online" THEN "online" ELSE "offline"]

\* PresenceUpdateService::handle_presence_updates: register_presence_handler
\* adds the connect handler (Online) and the disconnect handler (Offline).
HandlePresenceUpdates ==
    /\ ~presenceOn
    /\ presenceOn' = TRUE
    /\ lastRet' = NoRet
    /\ UNCHANGED <<presenceTasks, pb, seen>>
    /\ UNCHANGED <<centerVars, wsVars, msgVars, loopVars, regVars, keyVars, bcVars,
                   authVars, phoneVars, inVars>>

\* A spawned presence task is scheduled: send_presence_update calls
\* broadcast_to_all, which collects the account ids under the read lock.
\* The runtime picks any of the spawned tasks.
PresenceTaskStart(u) ==
    /\ presenceTasks[u] > 0
    /\ pb.pc = "idle"
    /\ presenceTasks' = [presenceTasks EXCEPT ![u] = @ - 1]
    /\ pb' = [pc |-> "sending", update |-> u,
              pending |-> {a \in Accounts : has_connection(a)}]
    /\ lastRet' = NoRet
    /\ UNCHANGED <<presenceOn, seen>>
    /\ UNCHANGED <<centerVars, wsVars, msgVars, loopVars, regVars, keyVars, bcVars,
                   authVars, phoneVars, inVars>>

\* The presence task: one iteration of broadcast_to_all's loop; an error
\* of send_to_account is only logged.
PresenceTaskSend(a) ==
    /\ pb.pc = "sending"
    /\ a \in pb.pending
    /\ SendOutcome(a) = "Ok" => Len(chan[SinkOf(a)]) < MaxChan
    /\ send_to_account(a, PresenceWebSocketMessage(pb.update))
    /\ pb' = [pb EXCEPT !.pending = @ \ {a}]
    /\ lastRet' = NoRet
    /\ UNCHANGED <<presenceOn, presenceTasks, seen>>
    /\ UNCHANGED <<connections, txAlive, rxAlive, connectFired, disconnectFired,
                   lastEvent, lastAdded, addsDone>>
    /\ UNCHANGED <<wsVars, msgVars, loopVars, regVars, keyVars, bcVars,
                   authVars, phoneVars, inVars>>

\* The presence task: the loop is over and the task ends.
PresenceTaskEnd ==
    /\ pb.pc = "sending"
    /\ pb.pending = {}
    /\ pb' = IdlePresence
    /\ lastRet' = NoRet
    /\ UNCHANGED <<presenceOn, presenceTasks, seen>>
    /\ UNCHANGED <<centerVars, wsVars, msgVars, loopVars, regVars, keyVars, bcVars,
                   authVars, phoneVars, inVars>>

\* PresenceStatus::from(bool)
PresenceStatusFrom(present) == IF present THEN "Online" ELSE "Offline"

\* Variant: an account counts as present once it has ever been added.
center_is_present_EverAdded(a) == addsDone[a] > 0

\* impl PresenceDatabase for WebSocketCenter: is_present is has_connection.
center_is_present(a) == has_connection(a)

\* PresenceService::get_presence_status over the center
get_presence_status(a) == PresenceStatusFrom(center_is_present(a))

\* GET presence/{account_id}: the status of account a is queried.
GetPresenceStatus(a) ==
    /\ lastRet' = Ret("get_presence_status", get_presence_status(a))
    /\ UNCHANGED <<centerVars, wsVars, msgVars, loopVars, sideVars>>

\* ----------------------------------------------------------------------
\* handle_websocket_connection: one instance per upgraded socket
\* ----------------------------------------------------------------------

\* Socket c is upgraded for account a: the channel is created and
\* add_connection inserts its sender half (first half of add_connection).
Upgrade(c, a) ==
    /\ UNCHANGED sideVars
    /\ wsPc[c] = "unused"
    /\ \A k \in Conns : k < c => wsPc[k] # "unused"
    /\ InsertConnection(a, c)
    /\ rxAlive' = [rxAlive EXCEPT ![c] = TRUE]
    /\ wsAccount' = [wsAccount EXCEPT ![c] = a]
    /\ wsPc' = [wsPc EXCEPT ![c] = "adding"]
    /\ sockOpen' = [sockOpen EXCEPT ![c] = TRUE]
    /\ lastEvent' = [lastEvent EXCEPT ![a] = "add"]
    /\ lastAdded' = [lastAdded EXCEPT ![a] = c]
    /\ UNCHANGED <<chan, connectFired, disconnectFired, addsDone>>
    /\ UNCHANGED <<outgoing, incoming>>
    /\ UNCHANGED <<msgVars, loopVars>>
    /\ lastRet' = NoRet

\* Variant: the handlers run only for an account that was not connected.
FireConnectHandlers_FirstOnly(a) ==
    IF addsDone[a] > 0 THEN connectFired
    ELSE [h \in ConnectHandlers |-> [connectFired[h] EXCEPT ![a] = @ + 1]]

\* The connect handlers of add_connection: each one runs once for the
\* account (a handler error is only logged).
FireConnectHandlers(a) ==
    [h \in ConnectHandlers |-> [connectFired[h] EXCEPT ![a] = @ + 1]]

\* Second half of add_connection, then both transport tasks are spawned.
AddNotify(c) ==
    /\ UNCHANGED <<regVars, keyVars, bcVars, authVars, phoneVars, inVars>>
    /\ UNCHANGED <<presenceOn, pb, seen>>
    /\ wsPc[c] = "adding"
    /\ connectFired' = FireConnectHandlers(wsAccount[c])
    /\ SpawnPresence(wsAccount[c], "Online")
    /\ addsDone' = [addsDone EXCEPT ![wsAccount[c]] = @ + 1]
    /\ wsPc' = [wsPc EXCEPT ![c] = "running"]
    /\ outgoing' = [outgoing EXCEPT ![c] = "running"]
    /\ incoming' = [incoming EXCEPT ![c] = "running"]
    /\ UNCHANGED <<connections, txAlive, rxAlive, chan, disconnectFired,
                   lastEvent, lastAdded>>
    /\ UNCHANGED <<wsAccount, sockOpen>>
    /\ UNCHANGED <<msgVars, loopVars>>
    /\ lastRet' = NoRet

\* The peer of account o reads frame f from its socket.
NoteSeen(o, f) ==
    IF f.type = "presence" /\ "status" \in DOMAIN f
       THEN [seen EXCEPT ![o][f.account_id] = f.status]
       ELSE seen

\* outgoing_task: rx.recv() yields a frame, which is written to the socket;
\* a failed write ends the task.
OutgoingWrite(c) ==
    /\ UNCHANGED <<regVars, keyVars, bcVars, authVars, phoneVars, inVars>>
    /\ UNCHANGED <<presenceOn, presenceTasks, pb>>
    /\ outgoing[c] = "running"
    /\ chan[c] # <<>>
    /\ IF sockOpen[c]
          THEN /\ chan' = [chan EXCEPT ![c] = Tail(@)]
               /\ seen' = NoteSeen(wsAccount[c], Head(chan[c]))
               /\ UNCHANGED <<outgoing, rxAlive>>
          ELSE /\ chan' = [chan EXCEPT ![c] = <<>>]
               /\ outgoing' = [outgoing EXCEPT ![c] = "done"]
               /\ rxAlive' = [rxAlive EXCEPT ![c] = FALSE]
               /\ seen' = seen
    /\ UNCHANGED <<connections, txAlive, connectFired, disconnectFired,
                   lastEvent, lastAdded, addsDone>>
    /\ UNCHANGED <<wsAccount, wsPc, incoming, sockOpen>>
    /\ UNCHANGED <<msgVars, loopVars>>
    /\ lastRet' = NoRet

\* outgoing_task: rx.recv() yields None once the sender half is gone and
\* the buffer is drained; the task ends.
OutgoingClosed(c) ==
    /\ UNCHANGED sideVars
    /\ outgoing[c] = "running"
    /\ chan[c] = <<>>
    /\ ~txAlive[c]
    /\ outgoing' = [outgoing EXCEPT ![c] = "done"]
    /\ rxAlive' = [rxAlive EXCEPT ![c] = FALSE]
    /\ UNCHANGED <<connections, txAlive, chan, connectFired, disconnectFired,
                   lastEvent, lastAdded, addsDone>>
    /\ UNCHANGED <<wsAccount, wsPc, incoming, sockOpen>>
    /\ UNCHANGED <<msgVars, loopVars>>
    /\ lastRet' = NoRet

\* The peer closes the socket (Close frame or transport error).
PeerClose(c) ==
    /\ UNCHANGED sideVars
    /\ wsPc[c] # "unused"
    /\ sockOpen[c]
    /\ sockOpen' = [sockOpen EXCEPT ![c] = FALSE]
    /\ UNCHANGED centerVars
    /\ UNCHANGED <<wsAccount, wsPc, outgoing, incoming>>
    /\ UNCHANGED <<msgVars, loopVars>>
    /\ lastRet' = NoRet

\* incoming_task: the read loop ends on Close / error and the task calls
\* remove_connection(account_id).
IncomingEnd(c) ==
    /\ UNCHANGED <<regVars, keyVars, bcVars, authVars, phoneVars, inVars>>
    /\ UNCHANGED <<presenceOn, pb, seen>>
    /\ incoming[c] = "running"
    /\ ~sockOpen[c]
    /\ remove_connection(wsAccount[c])
    /\ incoming' = [incoming EXCEPT ![c] = "done"]
    /\ UNCHANGED <<rxAlive, chan, connectFired, lastAdded, addsDone>>
    /\ UNCHANGED <<wsAccount, wsPc, outgoing, sockOpen>>
    /\ UNCHANGED <<msgVars, loopVars>>
    /\ lastRet' = NoRet

\* tokio::select! returns when either task has completed; the function
\* then calls remove_connection(account_id) and returns.  The other task
\* is detached, not aborted.
SelectDone(c) ==
    /\ UNCHANGED <<regVars, keyVars, bcVars, authVars, phoneVars, inVars>>
    /\ UNCHANGED <<presenceOn, pb, seen>>
    /\ wsPc[c] = "running"
    /\ outgoing[c] = "done" \/ incoming[c] = "done"
    /\ remove_connection(wsAccount[c])
    /\ wsPc' = [wsPc EXCEPT ![c] = "done"]
    /\ UNCHANGED <<rxAlive, chan, connectFired, lastAdded, addsDone>>
    /\ UNCHANGED <<wsAccount, outgoing, incoming, sockOpen>>
    /\ UNCHANGED <<msgVars, loopVars>>
    /\ lastRet' = NoRet

\* ----------------------------------------------------------------------
\* Inbound frames: on_message_received and the typing relay
\* ----------------------------------------------------------------------

\* Bytes received from a peer: not JSON; JSON without a string "type";
\* JSON with a tag and a body that does or does not deserialize into the
\* handler's message type.
MalformedFrame ==
    [json |-> FALSE, type |-> "none", body_ok |-> FALSE, account_id |-> NoAccount,
     is_typing |-> FALSE]
UntypedFrame ==
    [json |-> TRUE, type |-> "none", body_ok |-> FALSE, account_id |-> NoAccount,
     is_typing |-> FALSE]
InFrames ==
    {MalformedFrame, UntypedFrame} \cup
    [json : {TRUE}, type : {"typing", "ping"}, body_ok : BOOLEAN,
     account_id : Accounts, is_typing : BOOLEAN]

DroppedOutcomes == {"malformed", "no_type", "no_handler", "handler_error"}

TypingStatus(sender_id, recipient_id, is_typing) ==
    [sender_id |-> sender_id, recipient_id |-> recipient_id, is_typing |-> is_typing]

\* Variant: the frame names the recipient.
TypingWebSocketMessage_OfRecipient(t) ==
    [type |-> "typing", id |-> 0, account_id |-> t.recipient_id,
     is_typing |-> t.is_typing]

\* send_typing_update: TypingWebSocketMessage::new(sender_id, is_typing)
TypingWebSocketMessage(t) ==
    [type |-> "typing", id |-> 0, account_id |-> t.sender_id,
     is_typing |-> t.is_typing]

\* on_message_received: where the frame ends
on_message_received(f) ==
    IF ~f.json THEN "malformed"
    ELSE IF f.type = "none" THEN "no_type"
    ELSE IF f.type \notin handlers THEN "no_handler"
    ELSE IF ~f.body_ok THEN "handler_error"
    ELSE "dispatched"

\* TypingService::handle_typing_updates registers the "typing" handler.
HandleTypingUpdates ==
    /\ "typing" \notin handlers
    /\ handlers' = handlers \cup {"typing"}
    /\ lastRet' = NoRet
    /\ UNCHANGED <<relays, rx>>
    /\ UNCHANGED <<centerVars, wsVars, msgVars, loopVars, regVars, keyVars, bcVars,
                   authVars, phoneVars, presVars>>

\* Variant: a frame that is dropped ends the read loop of its socket.
OnMessageReceived_DropEndsLoop(c, f) ==
    /\ incoming[c] = "running"
    /\ sockOpen[c]
    /\ Len(relays) < MaxRelays
    /\ relays' = IF on_message_received(f) = "dispatched"
                    THEN Append(relays, TypingStatus(wsAccount[c], f.account_id,
                                                     f.is_typing))
                    ELSE relays
    /\ incoming' = IF on_message_received(f) = "dispatched" THEN incoming
                   ELSE [incoming EXCEPT ![c] = "done"]
    /\ rx' = [outcome |-> on_message_received(f), prev |-> rx.outcome]
    /\ lastRet' = NoRet
    /\ UNCHANGED handlers
    /\ UNCHANGED <<wsAccount, wsPc, outgoing, sockOpen>>
    /\ UNCHANGED <<centerVars, msgVars, loopVars, regVars, keyVars, bcVars,
                   authVars, phoneVars, presVars>>

\* incoming_task reads a Binary or Text frame from socket c and hands it
\* to on_message_received; the typing handler spawns the relay task.
OnMessageReceived(c, f) ==
    /\ incoming[c] = "running"
    /\ sockOpen[c]
    /\ Len(relays) < MaxRelays
    /\ relays' = IF on_message_received(f) = "dispatched"
                    THEN Append(relays, TypingStatus(wsAccount[c], f.account_id,
                                                     f.is_typing))
                    ELSE relays
    /\ rx' = [outcome |-> on_message_received(f), prev |-> rx.outcome]
    /\ lastRet' = NoRet
    /\ UNCHANGED handlers
    /\ UNCHANGED <<centerVars, wsVars, msgVars, loopVars, regVars, keyVars, bcVars,
                   authVars, phoneVars, presVars>>

\* The relay task spawned by the typing handler: send_typing_update, whose
\* error is only logged.
TypingRelaySend(i) ==
    /\ i \in 1..Len(relays)
    /\ LET t == relays[i]
       IN /\ SendOutcome(t.recipient_id) = "Ok" =>
                 Len(chan[SinkOf(t.recipient_id)]) < MaxChan
          /\ send_to_account(t.recipient_id, TypingWebSocketMessage(t))
    /\ relays' = SubSeq(relays, 1, i - 1) \o SubSeq(relays, i + 1, Len(relays))
    /\ lastRet' = NoRet
    /\ UNCHANGED <<handlers, rx>>
    /\ UNCHANGED <<connections, txAlive, rxAlive, connectFired, disconnectFired,
                   lastEvent, lastAdded, addsDone>>
    /\ UNCHANGED <<wsVars, msgVars, loopVars, regVars, keyVars, bcVars,
                   authVars, phoneVars, presVars>>

\* ----------------------------------------------------------------------
\* Queue store (MessageDatabase) and account store
\* ----------------------------------------------------------------------

Message(id, sender, recipient, body, ts) ==
    [message_id |-> id, sender_id |-> sender, recipient_id |-> recipient,
     body |-> body, timestamp |-> ts]

\* Variant: the message is filed under its sender.
insert_message_BySender(q, m) == [q EXCEPT ![m.sender_id] = Append(@, m)]

\* insert_message: push at the end of the recipient's Vec
insert_message(q, m) == [q EXCEPT ![m.recipient_id] = Append(@, m)]

\* get_messages_for_account: a clone of the recipient's Vec
get_messages_for_account(q, a) == q[a]

\* Variant: the named ids are removed from every account's queue.
remove_messages_AnyQueue(q, a, ids) ==
    [b \in DOMAIN q |-> SelectSeq(q[b], LAMBDA m : m.message_id \notin ids)]

\* Variant: the whole queue of the account is dropped.
remove_messages_ClearsQueue(q, a, ids) == [q EXCEPT ![a] = <<>>]

\* Variant: the retain predicate is inverted.
remove_messages_Inverted(q, a, ids) ==
    [q EXCEPT ![a] = SelectSeq(@, LAMBDA m : m.message_id \in ids)]

\* remove_messages: retain the messages whose id is not named
remove_messages(q, a, ids) ==
    [q EXCEPT ![a] = SelectSeq(@, LAMBDA m : m.message_id \notin ids)]

\* get_all_messages: the queued messages of every recipient; order lists
\* the recipients in the iteration order of the map
RECURSIVE get_all_messages(_, _)
get_all_messages(q, order) ==
    IF order = <<>> THEN <<>>
    ELSE q[Head(order)] \o get_all_messages(q, Tail(order))

AccountOrders ==
    {o \in [1..Cardinality(Accounts) -> Accounts] :
        \A i, j \in DOMAIN o : i # j => o[i] # o[j]}

QueuedIds(q, a) == {q[a][i].message_id : i \in DOMAIN q[a]}

\* The store starts failing / answers again (MessageDatabase returns Result).
DbFail ==
    /\ UNCHANGED sideVars
    /\ dbUp
    /\ dbFaults < MaxDbFaults
    /\ dbUp' = FALSE
    /\ dbFaults' = dbFaults + 1
    /\ UNCHANGED <<queue, nextId, sm>>
    /\ UNCHANGED <<centerVars, wsVars, loopVars>>
    /\ lastRet' = NoRet

DbRecover ==
    /\ UNCHANGED sideVars
    /\ ~dbUp
    /\ dbUp' = TRUE
    /\ UNCHANGED <<queue, nextId, dbFaults, sm>>
    /\ UNCHANGED <<centerVars, wsVars, loopVars>>
    /\ lastRet' = NoRet

\* ----------------------------------------------------------------------
\* NotificationService
\* ----------------------------------------------------------------------

\* Variant: an account without APNS token is skipped silently.
send_wakeup_notification_TokenOptional(row, storeOk, gatewayOk) ==
    IF ~storeOk THEN "SendFailure"
    ELSE IF row = "absent" THEN "SendFailure"
    ELSE IF row # "apns" THEN "Ok"
    ELSE IF gatewayOk THEN "Ok"
    ELSE "SendFailure"

\* send_wakeup_notification: fetch the account (row is what the account
\* store holds for the id), take its APNS token, call the gateway; every
\* failure is a SendFailure.
send_wakeup_notification(row, storeOk, gatewayOk) ==
    IF ~storeOk THEN "SendFailure"
    ELSE IF row = "absent" THEN "SendFailure"
    ELSE IF row # "apns" THEN "SendFailure"
    ELSE IF gatewayOk THEN "Ok"
    ELSE "SendFailure"

\* ----------------------------------------------------------------------
\* MessagingService
\* ----------------------------------------------------------------------

IdleCall ==
    [pc |-> "idle", sender |-> NoAccount, recipient |-> NoAccount, body |-> "none",
     present |-> FALSE, message_id |-> 0, timestamp |-> 0, removed |-> FALSE]

\* Variant: a failed lookup counts as absent.
is_present_FailureAbsent(b, lookupOk) == IF lookupOk THEN has_connection(b) ELSE FALSE

\* is_present of the presence database; a failed lookup counts as present
is_present(b, lookupOk) == IF lookupOk THEN has_connection(b) ELSE TRUE

\* The receipt send_message returns for the message it stamped
Receipt(id, ts, wakeups) ==
    [op |-> "send_message", result |-> "Ok", message_id |-> id, timestamp |-> ts,
     wakeups |-> wakeups]

\* The error send_message returns
SendError(kind, wakeups) ==
    [op |-> "send_message", result |-> kind, message_id |-> 0, timestamp |-> 0,
     wakeups |-> wakeups]

\* The call in flight learns that its message left the queue.
NoteRemoved(call, b, ids) ==
    IF call.pc = "inserted" /\ call.recipient = b /\ call.message_id \in ids
       THEN [call EXCEPT !.removed = TRUE]
       ELSE call

\* send_message, up to the presence lookup
SendStart(a, b, x, lookupOk) ==
    /\ UNCHANGED sideVars
    /\ sm.pc = "idle"
    /\ nextId <= MaxMsgs
    /\ sm' = [IdleCall EXCEPT !.pc = "checked", !.sender = a, !.recipient = b,
                              !.body = x, !.present = is_present(b, lookupOk)]
    /\ UNCHANGED <<queue, nextId, dbUp, dbFaults>>
    /\ UNCHANGED <<centerVars, wsVars, loopVars>>
    /\ lastRet' = NoRet

\* Variant: the wake-up of an absent recipient is sent before the insert.
SendInsert_WakeupFirst(ts) ==
    /\ UNCHANGED sideVars
    /\ sm.pc = "checked"
    /\ nextId' = nextId + 1
    /\ IF ~dbUp
          THEN /\ queue' = queue
               /\ sm' = IdleCall
               /\ lastRet' = SendError("DatabaseError", IF sm.present THEN 0 ELSE 1)
          ELSE /\ queue' = insert_message(queue,
                              Message(nextId, sm.sender, sm.recipient, sm.body, ts))
               /\ sm' = IdleCall
               /\ lastRet' = Receipt(nextId, ts, IF sm.present THEN 0 ELSE 1)
    /\ UNCHANGED <<dbUp, dbFaults>>
    /\ UNCHANGED <<centerVars, wsVars, loopVars>>

\* send_message: stamp the message and insert it; an insert error ends the
\* call, a present recipient gets the receipt at once.
SendInsert(ts) ==
    /\ UNCHANGED sideVars
    /\ sm.pc = "checked"
    /\ nextId' = nextId + 1
    /\ IF ~dbUp
          THEN /\ queue' = queue
               /\ sm' = IdleCall
               /\ lastRet' = SendError("DatabaseError", 0)
          ELSE /\ queue' = insert_message(queue,
                              Message(nextId, sm.sender, sm.recipient, sm.body, ts))
               /\ IF sm.present
                     THEN /\ sm' = IdleCall
                          /\ lastRet' = Receipt(nextId, ts, 0)
                     ELSE /\ sm' = [sm EXCEPT !.pc = "inserted", !.message_id = nextId,
                                              !.timestamp = ts]
                          /\ lastRet' = NoRet
    /\ UNCHANGED <<dbUp, dbFaults>>
    /\ UNCHANGED <<centerVars, wsVars, loopVars>>

\* send_message: the recipient was absent, so the wake-up is sent once; its
\* failure is returned as NotificationError, otherwise the receipt.
SendWakeup(row, storeOk, gatewayOk) ==
    /\ UNCHANGED sideVars
    /\ sm.pc = "inserted"
    /\ sm' = IdleCall
    /\ lastRet' =
          IF send_wakeup_notification(row, storeOk, gatewayOk) = "Ok"
             THEN Receipt(sm.message_id, sm.timestamp, 1)
             ELSE SendError("NotificationError", 1)
    /\ UNCHANGED <<queue, nextId, dbUp, dbFaults>>
    /\ UNCHANGED <<centerVars, wsVars, loopVars>>

\* mark_delivered: remove_messages on the caller's queue
mark_delivered(b, ids) ==
    /\ UNCHANGED sideVars
    /\ IF dbUp
          THEN /\ queue' = remove_messages(queue, b, ids)
               /\ sm' = NoteRemoved(sm, b, ids)
               /\ lastRet' = Ret("mark_delivered", "Ok")
          ELSE /\ lastRet' = Ret("mark_delivered", "DatabaseError")
               /\ UNCHANGED <<queue, sm>>
    /\ UNCHANGED <<nextId, dbUp, dbFaults>>
    /\ UNCHANGED <<centerVars, wsVars, loopVars>>

\* ----------------------------------------------------------------------
\* MessageSenderService
\* ----------------------------------------------------------------------

\* Variant: a failed get_all_messages ends the sender loop.
TickStart_ErrorStopsLoop(order) ==
    /\ UNCHANGED sideVars
    /\ tickPc = "idle"
    /\ IF dbUp
          THEN /\ batch' = get_all_messages(queue, order)
               /\ tickPc' = IF batch' = <<>> THEN "idle" ELSE "sending"
               /\ lastRet' = IF batch' = <<>> THEN Ret("tick", "Ok") ELSE NoRet
          ELSE /\ lastRet' = Ret("tick", "DatabaseError")
               /\ tickPc' = "stopped"
               /\ UNCHANGED batch
    /\ UNCHANGED pushCount
    /\ UNCHANGED <<centerVars, wsVars, msgVars>>

\* try_send_pending_messages: get_all_messages; an error ends the tick
TickStart(order) ==
    /\ UNCHANGED sideVars
    /\ tickPc = "idle"
    /\ IF dbUp
          THEN /\ batch' = get_all_messages(queue, order)
               /\ tickPc' = IF batch' = <<>> THEN "idle" ELSE "sending"
               /\ lastRet' = IF batch' = <<>> THEN Ret("tick", "Ok") ELSE NoRet
          ELSE /\ lastRet' = Ret("tick", "DatabaseError")
               /\ UNCHANGED <<tickPc, batch>>
    /\ UNCHANGED pushCount
    /\ UNCHANGED <<centerVars, wsVars, msgVars>>

\* Variant: a failed send ends the tick.
TickSend_SendFailureHalts ==
    /\ UNCHANGED sideVars
    /\ tickPc = "sending"
    /\ LET m == Head(batch)
           b == m.recipient_id
           sent == SendOutcome(b) = "Ok"
       IN /\ sent => Len(chan[SinkOf(b)]) < MaxChan
          /\ send_to_account(b, MessageFrame(m))
          /\ pushCount' = IF sent THEN [pushCount EXCEPT ![m.message_id] = @ + 1]
                          ELSE pushCount
          /\ IF sent /\ dbUp
                THEN /\ queue' = remove_messages(queue, b, {m.message_id})
                     /\ sm' = NoteRemoved(sm, b, {m.message_id})
                ELSE UNCHANGED <<queue, sm>>
          /\ IF ~sent \/ ~dbUp
                THEN /\ batch' = <<>>
                     /\ tickPc' = "idle"
                     /\ lastRet' = Ret("tick", "DatabaseError")
                ELSE /\ batch' = Tail(batch)
                     /\ tickPc' = IF Tail(batch) = <<>> THEN "idle" ELSE "sending"
                     /\ lastRet' = IF Tail(batch) = <<>> THEN Ret("tick", "Ok")
                                   ELSE NoRet
    /\ UNCHANGED <<connections, txAlive, rxAlive, connectFired, disconnectFired,
                   lastEvent, lastAdded, addsDone>>
    /\ UNCHANGED <<nextId, dbUp, dbFaults>>
    /\ UNCHANGED wsVars

\* Variant: a failed remove is logged and the loop goes on.
TickSend_RemoveFailureContinues ==
    /\ UNCHANGED sideVars
    /\ tickPc = "sending"
    /\ LET m == Head(batch)
           b == m.recipient_id
           sent == SendOutcome(b) = "Ok"
       IN /\ sent => Len(chan[SinkOf(b)]) < MaxChan
          /\ send_to_account(b, MessageFrame(m))
          /\ pushCount' = IF sent THEN [pushCount EXCEPT ![m.message_id] = @ + 1]
                          ELSE pushCount
          /\ IF sent /\ dbUp
                THEN /\ queue' = remove_messages(queue, b, {m.message_id})
                     /\ sm' = NoteRemoved(sm, b, {m.message_id})
                ELSE UNCHANGED <<queue, sm>>
          /\ IF FALSE
                THEN /\ batch' = <<>>
                     /\ tickPc' = "idle"
                     /\ lastRet' = Ret("tick", "DatabaseError")
                ELSE /\ batch' = Tail(batch)
                     /\ tickPc' = IF Tail(batch) = <<>> THEN "idle" ELSE "sending"
                     /\ lastRet' = IF Tail(batch) = <<>> THEN Ret("tick", "Ok")
                                   ELSE NoRet
    /\ UNCHANGED <<connections, txAlive, rxAlive, connectFired, disconnectFired,
                   lastEvent, lastAdded, addsDone>>
    /\ UNCHANGED <<nextId, dbUp, dbFaults>>
    /\ UNCHANGED wsVars

\* try_send_pending_messages: one iteration of the loop over the batch
TickSend ==
    /\ UNCHANGED sideVars
    /\ tickPc = "sending"
    /\ LET m == Head(batch)
           b == m.recipient_id
           sent == SendOutcome(b) = "Ok"
       IN /\ sent => Len(chan[SinkOf(b)]) < MaxChan
          /\ send_to_account(b, MessageFrame(m))
          /\ pushCount' = IF sent THEN [pushCount EXCEPT ![m.message_id] = @ + 1]
                          ELSE pushCount
          /\ IF sent /\ dbUp
                THEN /\ queue' = remove_messages(queue, b, {m.message_id})
                     /\ sm' = NoteRemoved(sm, b, {m.message_id})
                ELSE UNCHANGED <<queue, sm>>
          /\ IF sent /\ ~dbUp
                THEN /\ batch' = <<>>
                     /\ tickPc' = "idle"
                     /\ lastRet' = Ret("tick", "DatabaseError")
                ELSE /\ batch' = Tail(batch)
                     /\ tickPc' = IF Tail(batch) = <<>> THEN "idle" ELSE "sending"
                     /\ lastRet' = IF Tail(batch) = <<>> THEN Ret("tick", "Ok")
                                   ELSE NoRet
    /\ UNCHANGED <<connections, txAlive, rxAlive, connectFired, disconnectFired,
                   lastEvent, lastAdded, addsDone>>
    /\ UNCHANGED <<nextId, dbUp, dbFaults>>
    /\ UNCHANGED wsVars

\* ----------------------------------------------------------------------
\* RegistrationService and PhoneRegistrationService: finalize
\* ----------------------------------------------------------------------

IdleReg ==
    [pc |-> "idle", path |-> "none", name |-> "none", apns |-> FALSE, gcm |-> FALSE,
     id |-> 0]

\* Variant: only the APNS token counts.
push_token_check_ApnsOnly(apns, gcm) ==
    IF ~apns THEN "MissingPushToken" ELSE "Ok"

\* The guard at the head of both finalize functions
push_token_check(apns, gcm) ==
    IF ~apns /\ ~gcm THEN "MissingPushToken" ELSE "Ok"

\* finalize: the token guard, then (phone path) validate_phone_number
FinalizeStart(path, name, apns, gcm, phoneValid) ==
    /\ UNCHANGED <<keyVars, bcVars, restVars>>
    /\ reg.pc = "idle"
    /\ regCalls < MaxRegCalls
    /\ regCalls' = regCalls + 1
    /\ IF push_token_check(apns, gcm) # "Ok"
          THEN /\ reg' = IdleReg
               /\ lastRet' = Ret("finalize_registration", "MissingPushToken")
          ELSE IF path = "phone" /\ ~phoneValid
          THEN /\ reg' = IdleReg
               /\ lastRet' = Ret("finalize_registration", "InvalidPhoneNumber")
          ELSE /\ reg' = [pc |-> "checked", path |-> path, name |-> name, apns |-> apns,
                          gcm |-> gcm, id |-> regCalls + 1]
               /\ lastRet' = NoRet
    /\ UNCHANGED <<regPosted, accountRows, profileRows>>
    /\ UNCHANGED <<centerVars, wsVars, msgVars, loopVars>>

\* Variant: an error of the registry is logged and the call goes on.
FinalizePost_IgnoresRegistry(outcome) ==
    /\ UNCHANGED <<keyVars, bcVars, restVars>>
    /\ reg.pc = "checked"
    /\ regPosted' = IF outcome = "sign_failed" THEN regPosted ELSE regPosted + 1
    /\ reg' = [reg EXCEPT !.pc = "posted"]
    /\ lastRet' = NoRet
    /\ UNCHANGED <<regCalls, accountRows, profileRows>>
    /\ UNCHANGED <<centerVars, wsVars, msgVars, loopVars>>

\* finalize: build the create-account transaction and send it to the
\* registry; a signing error, a transport error or a rejection ends the call.
FinalizePost(outcome) ==
    /\ UNCHANGED <<keyVars, bcVars, restVars>>
    /\ reg.pc = "checked"
    /\ regPosted' = IF outcome = "sign_failed" THEN regPosted ELSE regPosted + 1
    /\ IF outcome = "accepted"
          THEN /\ reg' = [reg EXCEPT !.pc = "posted"]
               /\ lastRet' = NoRet
          ELSE /\ reg' = IdleReg
               /\ lastRet' = Ret("finalize_registration", "ProcessingFailed")
    /\ UNCHANGED <<regCalls, accountRows, profileRows>>
    /\ UNCHANGED <<centerVars, wsVars, msgVars, loopVars>>

\* finalize: upsert_account of the new account
FinalizeAccount(ok) ==
    /\ UNCHANGED <<keyVars, bcVars, restVars>>
    /\ reg.pc = "posted"
    /\ IF ok
          THEN /\ accountRows' = accountRows \cup
                                  {[id |-> reg.id, apns |-> reg.apns, gcm |-> reg.gcm]}
               /\ reg' = [reg EXCEPT !.pc = "saved"]
               /\ lastRet' = NoRet
          ELSE /\ accountRows' = accountRows
               /\ reg' = IdleReg
               /\ lastRet' = Ret("finalize_registration", "ProcessingFailed")
    /\ UNCHANGED <<regCalls, regPosted, profileRows>>
    /\ UNCHANGED <<centerVars, wsVars, msgVars, loopVars>>

\* finalize: upsert_profile of the default profile, then Ok(account)
FinalizeProfile(ok) ==
    /\ UNCHANGED <<keyVars, bcVars, restVars>>
    /\ reg.pc = "saved"
    /\ IF ok
          THEN /\ profileRows' = profileRows \cup
                                  {[account_id |-> reg.id, username |-> reg.name]}
               /\ lastRet' = Ret("finalize_registration", "Ok")
          ELSE /\ profileRows' = profileRows
               /\ lastRet' = Ret("finalize_registration", "ProcessingFailed")
    /\ reg' = IdleReg
    /\ UNCHANGED <<regCalls, regPosted, accountRows>>
    /\ UNCHANGED <<centerVars, wsVars, msgVars, loopVars>>

\* ----------------------------------------------------------------------
\* KeyService and KeyDatabase (InMemoryDatabase, SqliteDatabase)
\* ----------------------------------------------------------------------

NoBundle == [identity |-> 0, prekeys |-> <<>>]

\* A prekey: its index, its key (named by the call that supplied it) and
\* the bundle row it hangs on (prekeys.account_id references key_bundles).
Prekey(idx, key, gen) == [key_idx |-> idx, key |-> key, gen |-> gen]

\* The bundle an upload call carries: identity key, signed prekey and
\* signature are named by the call, the prekeys by their indices.
KeyBundle(call, idxs) ==
    [identity |-> call, prekeys |-> [i \in DOMAIN idxs |-> Prekey(idxs[i], call, call)]]

IdxsOf(prekeys) == {prekeys[i].key_idx : i \in DOMAIN prekeys}

\* KeyBundle::verify: the signature, then no key_idx twice in the bundle
verify(idxs, sigOk) ==
    /\ sigOk
    /\ \A i, j \in DOMAIN idxs : i # j => idxs[i] # idxs[j]

KeyRet(op, result, idx, bundle) == [op |-> op, result |-> result, idx |-> idx, bundle |-> bundle]
NoKeyRet == KeyRet("none", "none", 0, NoBundle)

IdleUpload == [pc |-> "idle", account |-> NoAccount, bundle |-> NoBundle, view |-> NoBundle]
IdleAdd == [pc |-> "idle", account |-> NoAccount, call |-> 0, idxs |-> <<>>]
IdleFetch == [pc |-> "idle", account |-> NoAccount, identity |-> 0]

\* KeyService::new: the service is built over one of the key stores.
KeyServiceNew(store) ==
    /\ keyStore = "unset"
    /\ keyStore' = store
    /\ UNCHANGED <<keyBundles, keyTx, addCall, addOther, rd, keyCalls, keyRet>>
    /\ UNCHANGED <<centerVars, wsVars, msgVars, loopVars, lastRet, regVars, bcVars, restVars>>

\* The SQLite write lock is held by the upload transaction from its
\* first write to its end.
WriteLocked == keyTx.pc \in {"deleted", "inserted"}

\* upload_key_bundle: verify, then insert_keybundle.  The in-memory store
\* replaces the map entry under its mutex; the SQLite store begins a
\* transaction.
UploadKeyBundle(a, idxs, sigOk) ==
    /\ keyStore # "unset"
    /\ keyTx.pc = "idle"
    /\ keyCalls < MaxKeyCalls
    /\ keyCalls' = keyCalls + 1
    /\ IF ~verify(idxs, sigOk)
          THEN /\ keyRet' = KeyRet("upload_key_bundle", "ValidationError", 0, NoBundle)
               /\ UNCHANGED <<keyBundles, keyTx>>
          ELSE IF keyStore = "inmemory"
          THEN /\ keyBundles' = [keyBundles EXCEPT ![a] = KeyBundle(keyCalls + 1, idxs)]
               /\ keyRet' = KeyRet("upload_key_bundle", "Ok", 0, NoBundle)
               /\ UNCHANGED keyTx
          ELSE /\ keyTx' = [pc |-> "begun", account |-> a,
                            bundle |-> KeyBundle(keyCalls + 1, idxs), view |-> NoBundle]
               /\ keyRet' = NoKeyRet
               /\ UNCHANGED keyBundles
    /\ UNCHANGED <<keyStore, addCall, addOther, rd>>
    /\ UNCHANGED <<centerVars, wsVars, msgVars, loopVars, lastRet, regVars, bcVars, restVars>>

\* Variant: the DELETE is committed on its own.
UploadDelete_Autocommit ==
    /\ keyTx.pc = "begun"
    /\ keyTx' = [keyTx EXCEPT !.pc = "deleted", !.view = NoBundle]
    /\ keyBundles' = [keyBundles EXCEPT ![keyTx.account] = NoBundle]
    /\ keyRet' = NoKeyRet
    /\ UNCHANGED <<keyStore, addCall, addOther, rd, keyCalls>>
    /\ UNCHANGED <<centerVars, wsVars, msgVars, loopVars, lastRet, regVars, bcVars, restVars>>

\* insert_keybundle (SQLite): DELETE FROM key_bundles inside the
\* transaction; the prekeys go with the row (ON DELETE CASCADE).
UploadDelete ==
    /\ keyTx.pc = "begun"
    /\ keyTx' = [keyTx EXCEPT !.pc = "deleted", !.view = NoBundle]
    /\ keyRet' = NoKeyRet
    /\ UNCHANGED <<keyStore, keyBundles, addCall, addOther, rd, keyCalls>>
    /\ UNCHANGED <<centerVars, wsVars, msgVars, loopVars, lastRet, regVars, bcVars, restVars>>

\* insert_keybundle (SQLite): INSERT of the bundle row and of its prekeys
UploadInsert ==
    /\ keyTx.pc = "deleted"
    /\ keyTx' = [keyTx EXCEPT !.pc = "inserted", !.view = keyTx.bundle]
    /\ keyRet' = NoKeyRet
    /\ UNCHANGED <<keyStore, keyBundles, addCall, addOther, rd, keyCalls>>
    /\ UNCHANGED <<centerVars, wsVars, msgVars, loopVars, lastRet, regVars, bcVars, restVars>>

\* insert_keybundle (SQLite): commit; a failed commit rolls back.
UploadCommit(ok) ==
    /\ keyTx.pc = "inserted"
    /\ IF ok
          THEN /\ keyBundles' = [keyBundles EXCEPT ![keyTx.account] = keyTx.view]
               /\ keyRet' = KeyRet("upload_key_bundle", "Ok", 0, NoBundle)
          ELSE /\ keyBundles' = keyBundles
               /\ keyRet' = KeyRet("upload_key_bundle", "DatabaseError", 0, NoBundle)
    /\ keyTx' = IdleUpload
    /\ UNCHANGED <<keyStore, addCall, addOther, rd, keyCalls>>
    /\ UNCHANGED <<centerVars, wsVars, msgVars, loopVars, lastRet, regVars, bcVars, restVars>>

\* Variant: the first stored index that the batch repeats.
FirstDuplicate_StoredOrder(existing, idxs) ==
    LET hits == {i \in DOMAIN existing : \E j \in DOMAIN idxs : idxs[j] = existing[i].key_idx}
    IN IF hits = {} THEN 0
       ELSE existing[CHOOSE i \in hits : \A k \in hits : i <= k].key_idx

\* add_prekeys: the first key_idx of the batch, in the batch's order,
\* that the stored bundle already holds (0 = none)
FirstDuplicate(existing, idxs) ==
    LET hits == {j \in DOMAIN idxs : idxs[j] \in IdxsOf(existing)}
    IN IF hits = {} THEN 0
       ELSE idxs[CHOOSE j \in hits : \A k \in hits : j <= k]

\* KeyService::add_prekeys up to the duplicate guard: get_keybundle,
\* NotFound without a bundle, DuplicatePrekey for a stored index.
AddPrekeysCheck(a, idxs) ==
    /\ keyStore # "unset"
    /\ addCall.pc = "idle"
    /\ keyCalls < MaxKeyCalls
    /\ keyCalls' = keyCalls + 1
    /\ IF keyBundles[a] = NoBundle
          THEN /\ keyRet' = KeyRet("add_prekeys", "NotFound", 0, NoBundle)
               /\ addCall' = IdleAdd
          ELSE IF FirstDuplicate(keyBundles[a].prekeys, idxs) # 0
          THEN /\ keyRet' = KeyRet("add_prekeys", "DuplicatePrekey",
                                   FirstDuplicate(keyBundles[a].prekeys, idxs), NoBundle)
               /\ addCall' = IdleAdd
          ELSE /\ keyRet' = NoKeyRet
               /\ addCall' = [pc |-> "storing", account |-> a, call |-> keyCalls + 1,
                              idxs |-> idxs]
    /\ UNCHANGED <<keyStore, keyBundles, keyTx, addOther, rd>>
    /\ UNCHANGED <<centerVars, wsVars, msgVars, loopVars, lastRet, regVars, bcVars, restVars>>

\* InMemoryDatabase::add_prekeys: bundle.prekeys.extend(prekeys)
ExtendPrekeys(bundle, call, idxs) ==
    [bundle EXCEPT !.prekeys =
        @ \o [i \in DOMAIN idxs |-> Prekey(idxs[i], call, bundle.identity)]]

\* SqliteDatabase::add_prekeys: INSERT .. ON CONFLICT(account_id, key_idx)
\* DO UPDATE SET key = excluded.key, one prekey after the other
RECURSIVE UpsertPrekeys(_, _, _)
UpsertPrekeys(bundle, call, idxs) ==
    IF idxs = <<>> THEN bundle
    ELSE LET p == Prekey(Head(idxs), call, bundle.identity)
             at == {i \in DOMAIN bundle.prekeys : bundle.prekeys[i].key_idx = Head(idxs)}
             next == IF at = {}
                        THEN [bundle EXCEPT !.prekeys = Append(@, p)]
                        ELSE [bundle EXCEPT !.prekeys =
                                 [i \in DOMAIN @ |-> IF i \in at THEN p ELSE @[i]]]
         IN UpsertPrekeys(next, call, Tail(idxs))

\* KeyDatabase::add_prekeys of the store in use: NotFound without a
\* bundle row, otherwise the batch is stored.
AddPrekeysStore ==
    /\ addCall.pc = "storing"
    /\ ~WriteLocked
    /\ LET a == addCall.account
       IN IF keyBundles[a] = NoBundle
             THEN /\ keyBundles' = keyBundles
                  /\ keyRet' = KeyRet("add_prekeys", "NotFound", 0, NoBundle)
             ELSE /\ keyBundles' = [keyBundles EXCEPT ![a] =
                                       IF keyStore = "inmemory"
                                          THEN ExtendPrekeys(@, addCall.call, addCall.idxs)
                                          ELSE UpsertPrekeys(@, addCall.call, addCall.idxs)]
                  /\ keyRet' = KeyRet("add_prekeys", "Ok", 0, NoBundle)
    /\ addCall' = IdleAdd
    /\ UNCHANGED <<keyStore, keyTx, addOther, rd, keyCalls>>
    /\ UNCHANGED <<centerVars, wsVars, msgVars, loopVars, lastRet, regVars, bcVars, restVars>>

\* A second client's add_prekeys, up to the duplicate guard, while the
\* first one may be in flight.
AddPrekeysCheckOther(a, idxs) ==
    /\ keyStore # "unset"
    /\ addOther.pc = "idle"
    /\ keyCalls < MaxKeyCalls
    /\ keyCalls' = keyCalls + 1
    /\ IF keyBundles[a] = NoBundle
          THEN /\ keyRet' = KeyRet("add_prekeys", "NotFound", 0, NoBundle)
               /\ addOther' = IdleAdd
          ELSE IF FirstDuplicate(keyBundles[a].prekeys, idxs) # 0
          THEN /\ keyRet' = KeyRet("add_prekeys", "DuplicatePrekey",
                                   FirstDuplicate(keyBundles[a].prekeys, idxs), NoBundle)
               /\ addOther' = IdleAdd
          ELSE /\ keyRet' = NoKeyRet
               /\ addOther' = [pc |-> "storing", account |-> a, call |-> keyCalls + 1,
                              idxs |-> idxs]
    /\ UNCHANGED <<keyStore, keyBundles, keyTx, addCall, rd>>
    /\ UNCHANGED <<centerVars, wsVars, msgVars, loopVars, lastRet, regVars, bcVars, restVars>>

\* The second client's add_prekeys: KeyDatabase::add_prekeys.
AddPrekeysStoreOther ==
    /\ addOther.pc = "storing"
    /\ ~WriteLocked
    /\ LET a == addOther.account
       IN IF keyBundles[a] = NoBundle
             THEN /\ keyBundles' = keyBundles
                  /\ keyRet' = KeyRet("add_prekeys", "NotFound", 0, NoBundle)
             ELSE /\ keyBundles' = [keyBundles EXCEPT ![a] =
                                       IF keyStore = "inmemory"
                                          THEN ExtendPrekeys(@, addOther.call, addOther.idxs)
                                          ELSE UpsertPrekeys(@, addOther.call, addOther.idxs)]
                  /\ keyRet' = KeyRet("add_prekeys", "Ok", 0, NoBundle)
    /\ addOther' = IdleAdd
    /\ UNCHANGED <<keyStore, keyTx, addCall, rd, keyCalls>>
    /\ UNCHANGED <<centerVars, wsVars, msgVars, loopVars, lastRet, regVars, bcVars, restVars>>

\* get_keybundle: the in-memory store clones the entry under its mutex;
\* the SQLite store first selects the bundle row.
FetchStart(a) ==
    /\ keyStore # "unset"
    /\ rd.pc = "idle"
    /\ IF keyBundles[a] = NoBundle
          THEN /\ keyRet' = KeyRet("get_keybundle", "None", 0, NoBundle)
               /\ rd' = IdleFetch
          ELSE IF keyStore = "inmemory"
          THEN /\ keyRet' = KeyRet("get_keybundle", "Some", 0, keyBundles[a])
               /\ rd' = IdleFetch
          ELSE /\ keyRet' = NoKeyRet
               /\ rd' = [pc |-> "row", account |-> a, identity |-> keyBundles[a].identity]
    /\ UNCHANGED <<keyStore, keyBundles, keyTx, addCall, addOther, keyCalls>>
    /\ UNCHANGED <<centerVars, wsVars, msgVars, loopVars, lastRet, regVars, bcVars, restVars>>

\* get_keybundle (SQLite): the second query selects the account's prekeys.
FetchPrekeys ==
    /\ rd.pc = "row"
    /\ keyRet' = KeyRet("get_keybundle", "Some", 0,
                        [identity |-> rd.identity,
                         prekeys |-> keyBundles[rd.account].prekeys])
    /\ rd' = IdleFetch
    /\ UNCHANGED <<keyStore, keyBundles, keyTx, addCall, addOther, keyCalls>>
    /\ UNCHANGED <<centerVars, wsVars, msgVars, loopVars, lastRet, regVars, bcVars, restVars>>

\* ----------------------------------------------------------------------
\* require_auth, AuthHeader and AuthService
\* ----------------------------------------------------------------------

\* The Authorization header of a request: absent, a value that is not
\* visible ASCII (to_str fails), or a scheme followed by credentials whose
\* Base64 decoding fails, yields invalid UTF-8, or yields the text.
NoHeader == [scheme |-> "none", enc |-> "ok", text |-> <<>>]
OpaqueHeader == [scheme |-> "opaque", enc |-> "ok", text |-> <<>>]
Headers ==
    {NoHeader, OpaqueHeader} \cup
    [scheme : {"Basic", "Bearer"}, enc : {"ok", "bad_base64", "bad_utf8"},
     text : HeaderTexts]

\* Rows of the accounts table as authenticate uses them: the id, the
\* password the stored hash was generated from, and whether the stored
\* hash string parses.
AuthRows ==
    [id : {"alice"}, password : {<<"a">>}, hash_ok : BOOLEAN] \cup
    [id : {"bob"}, password : {<<":">>}, hash_ok : {TRUE}]

StatusUnauthorized == 401
StatusHandler == 200

NoRequest ==
    [header |-> NoHeader, storeOk |-> TRUE, status |-> 0,
     handler_ran |-> FALSE, account |-> NoAccount]

\* AuthHeader::parse: the scheme prefix, Base64, UTF-8, then splitn(2, ':').
AuthHeaderParse(h) ==
    IF h.scheme # "Basic"
       THEN [err |-> "InvalidFormat", username |-> <<>>, password |-> <<>>]
    ELSE IF h.enc = "bad_base64"
       THEN [err |-> "Base64Error", username |-> <<>>, password |-> <<>>]
    ELSE IF h.enc = "bad_utf8"
       THEN [err |-> "Utf8Error", username |-> <<>>, password |-> <<>>]
    ELSE LET colons == {i \in 1..Len(h.text) : h.text[i] = ":"}
         IN IF colons = {}
               THEN [err |-> "MissingCredentials", username |-> <<>>, password |-> <<>>]
               ELSE LET i == CHOOSE k \in colons : \A j \in colons : k <= j
                    IN [err |-> "none",
                        username |-> SubSeq(h.text, 1, i - 1),
                        password |-> SubSeq(h.text, i + 1, Len(h.text))]

\* Uuid::parse_str: the texts that are the ids of alice and bob; every
\* other text is not a UUID.
UuidParse(text) ==
    IF text = <<"a">> THEN "alice"
    ELSE IF text = <<"b">> THEN "bob"
    ELSE "invalid"

\* SaltedHash::verify_password
verify_password(row, password) ==
    IF ~row.hash_ok THEN "HashParseError"
    ELSE IF row.password = password THEN "Ok"
    ELSE "InvalidPassword"

\* AuthService::authenticate
authenticate(id, password, storeOk) ==
    LET account_id == UuidParse(id)
        rows == {r \in authStore : r.id = account_id}
    IN IF account_id = "invalid" THEN [err |-> "InvalidCredentials", account |-> NoAccount]
       ELSE IF ~storeOk THEN [err |-> "DatabaseError", account |-> NoAccount]
       ELSE IF rows = {} THEN [err |-> "InvalidCredentials", account |-> NoAccount]
       ELSE LET row == CHOOSE r \in rows : TRUE
                verdict == verify_password(row, password)
            IN IF verdict = "InvalidPassword"
                  THEN [err |-> "InvalidCredentials", account |-> NoAccount]
               ELSE IF verdict = "HashParseError"
                  THEN [err |-> "ProcessingFailed", account |-> NoAccount]
               ELSE [err |-> "none", account |-> row.id]

\* Variant: an authenticate error is answered with the status of
\* AuthError::into_response.
require_auth_LeaksAuthError(h, storeOk) ==
    LET denied == [status |-> StatusUnauthorized, handler_ran |-> FALSE,
                   account |-> NoAccount]
    IN IF h.scheme \in {"none", "opaque"} THEN denied
       ELSE LET auth_header == AuthHeaderParse(h)
            IN IF auth_header.err # "none" THEN denied
               ELSE LET res == authenticate(auth_header.username,
                                            auth_header.password, storeOk)
                    IN IF res.err = "InvalidCredentials" THEN denied
                       ELSE IF res.err # "none"
                          THEN [denied EXCEPT !.status = 500]
                       ELSE [status |-> StatusHandler, handler_ran |-> TRUE,
                             account |-> res.account]

\* require_auth: the header, its parse, authenticate; then the account is
\* attached to the request and the next handler runs.
require_auth(h, storeOk) ==
    LET denied == [status |-> StatusUnauthorized, handler_ran |-> FALSE,
                   account |-> NoAccount]
    IN IF h.scheme \in {"none", "opaque"} THEN denied
       ELSE LET auth_header == AuthHeaderParse(h)
            IN IF auth_header.err # "none" THEN denied
               ELSE LET res == authenticate(auth_header.username,
                                            auth_header.password, storeOk)
                    IN IF res.err # "none" THEN denied
                       ELSE [status |-> StatusHandler, handler_ran |-> TRUE,
                             account |-> res.account]

\* upsert_account on the accounts table (primary key id)
AuthStoreUpsert(row) ==
    /\ authStore' = {r \in authStore : r.id # row.id} \cup {row}
    /\ row \notin authStore
    /\ lastRet' = NoRet
    /\ UNCHANGED auth
    /\ UNCHANGED <<centerVars, wsVars, msgVars, loopVars, regVars, keyVars, bcVars,
                   phoneVars, inVars, presVars>>

\* A request passes through the middleware.
RequireAuth(h, storeOk) ==
    /\ LET res == require_auth(h, storeOk)
       IN /\ auth' = [header |-> h, storeOk |-> storeOk, status |-> res.status,
                      handler_ran |-> res.handler_ran, account |-> res.account]
          /\ lastRet' = Ret("require_auth",
                            IF res.handler_ran THEN "Next" ELSE "Unauthorized")
    /\ UNCHANGED authStore
    /\ UNCHANGED <<centerVars, wsVars, msgVars, loopVars, regVars, keyVars, bcVars,
                   phoneVars, inVars, presVars>>

\* ----------------------------------------------------------------------
\* PhoneRegistrationService: request and verify
\* ----------------------------------------------------------------------

\* validate_phone_number: parse, is_valid, then the E.164 form; a number
\* without country code does not parse.
validate_phone_number(raw) ==
    IF raw \in {"+15550001", "+1 555 0001"} THEN "+15550001"
    ELSE IF raw = "+15550002" THEN "+15550002"
    ELSE "invalid"

IdleVerify == [pc |-> "idle", phone |-> "none"]
PhoneRet(op, phone, result) == [op |-> op, phone |-> phone, result |-> result]
NoPhoneRet == PhoneRet("none", "none", "none")

\* request_phone_registration: the OTP is sent through the provider and,
\* when the provider accepted, the normalized phone joins the pending set.
RequestPhoneRegistration(raw, outcome) ==
    LET normalized_phone == validate_phone_number(raw)
    IN /\ IF normalized_phone = "invalid"
             THEN /\ phoneRet' = PhoneRet("request", "none", "InvalidPhoneNumber")
                  /\ UNCHANGED <<pending_registrations, spent>>
          ELSE IF outcome # "sent"
             THEN /\ phoneRet' = PhoneRet("request", normalized_phone, "TwilioError")
                  /\ UNCHANGED <<pending_registrations, spent>>
          ELSE /\ pending_registrations' = pending_registrations \cup {normalized_phone}
               /\ spent' = spent \ {normalized_phone}
               /\ phoneRet' = PhoneRet("request", normalized_phone, "Ok")
       /\ UNCHANGED <<vcall, verified_phones>>
       /\ UNCHANGED <<centerVars, wsVars, msgVars, loopVars, lastRet, regVars, keyVars,
                      bcVars, authVars, inVars, presVars>>

\* verify_phone_registration up to the provider request: the phone is
\* normalized and looked up in the pending set under the read lock.
VerifyStart(k, raw) ==
    LET normalized_phone == validate_phone_number(raw)
    IN /\ vcall[k].pc = "idle"
       /\ IF normalized_phone = "invalid"
             THEN /\ phoneRet' = PhoneRet("verify", "none", "InvalidPhoneNumber")
                  /\ UNCHANGED vcall
          ELSE IF normalized_phone \notin pending_registrations
             THEN /\ phoneRet' = PhoneRet("verify", normalized_phone,
                                          "PhoneSessionNotFound")
                  /\ UNCHANGED vcall
          ELSE /\ vcall' = [vcall EXCEPT ![k] = [pc |-> "otp", phone |-> normalized_phone]]
               /\ phoneRet' = NoPhoneRet
       /\ UNCHANGED <<pending_registrations, spent, verified_phones>>
       /\ UNCHANGED <<centerVars, wsVars, msgVars, loopVars, lastRet, regVars, keyVars,
                      bcVars, authVars, inVars, presVars>>

\* Variant: a failed OTP check drops the pending entry.
VerifyCheck_DropsOnFailure(k, outcome) ==
    /\ vcall[k].pc = "otp"
    /\ pending_registrations' = pending_registrations \ {vcall[k].phone}
    /\ IF outcome = "approved"
          THEN /\ spent' = spent \cup {vcall[k].phone}
               /\ verified_phones' = verified_phones \cup {vcall[k].phone}
               /\ phoneRet' = PhoneRet("verify", vcall[k].phone, "Ok")
          ELSE /\ phoneRet' = PhoneRet("verify", vcall[k].phone,
                      CASE outcome \in {"send_failed", "bad_json"} -> "TwilioError"
                        [] outcome \in {"http_error", "pending"} -> "OtpVerificationFailed"
                        [] OTHER -> "ProcessingFailed")
               /\ UNCHANGED <<spent, verified_phones>>
    /\ vcall' = [vcall EXCEPT ![k] = IdleVerify]
    /\ UNCHANGED <<centerVars, wsVars, msgVars, loopVars, lastRet, regVars, keyVars,
                   bcVars, authVars, inVars, presVars>>

\* verify_phone_registration from the provider's answer on: a transport
\* error, a non-success status, an unreadable body or a status other than
\* "approved" end the call; otherwise the challenge is signed, the phone
\* is removed from the pending set and the challenge is returned.
VerifyCheck(k, outcome) ==
    /\ vcall[k].pc = "otp"
    /\ IF outcome = "approved"
          THEN /\ pending_registrations' = pending_registrations \ {vcall[k].phone}
               /\ spent' = spent \cup {vcall[k].phone}
               /\ verified_phones' = verified_phones \cup {vcall[k].phone}
               /\ phoneRet' = PhoneRet("verify", vcall[k].phone, "Ok")
          ELSE /\ phoneRet' = PhoneRet("verify", vcall[k].phone,
                      CASE outcome \in {"send_failed", "bad_json"} -> "TwilioError"
                        [] outcome \in {"http_error", "pending"} -> "OtpVerificationFailed"
                        [] OTHER -> "ProcessingFailed")
               /\ UNCHANGED <<pending_registrations, spent, verified_phones>>
    /\ vcall' = [vcall EXCEPT ![k] = IdleVerify]
    /\ UNCHANGED <<centerVars, wsVars, msgVars, loopVars, lastRet, regVars, keyVars,
                   bcVars, authVars, inVars, presVars>>

\* finalize_phone_registration up to the registry request: the token guard,
\* then validate_phone_number; neither the pending set nor any record of
\* a verification is read.
FinalizePhoneStart(raw, apns, gcm) ==
    LET normalized_phone == validate_phone_number(raw)
    IN /\ reg.pc = "idle"
       /\ regCalls < MaxRegCalls
       /\ regCalls' = regCalls + 1
       /\ IF push_token_check(apns, gcm) # "Ok"
             THEN /\ reg' = IdleReg
                  /\ lastRet' = Ret("finalize_registration", "MissingPushToken")
             ELSE IF normalized_phone = "invalid"
             THEN /\ reg' = IdleReg
                  /\ lastRet' = Ret("finalize_registration", "InvalidPhoneNumber")
             ELSE /\ reg' = [pc |-> "checked", path |-> "phone",
                             name |-> normalized_phone, apns |-> apns, gcm |-> gcm,
                             id |-> regCalls + 1]
                  /\ lastRet' = NoRet
       /\ UNCHANGED <<regPosted, accountRows, profileRows>>
       /\ UNCHANGED <<centerVars, wsVars, msgVars, loopVars, keyVars, bcVars, restVars>>

\* ----------------------------------------------------------------------
\* Initial state and specifications
\* ----------------------------------------------------------------------
Init ==
    /\ connections = [a \in Accounts |-> NoConn]
    /\ txAlive = [c \in Conns |-> FALSE]
    /\ rxAlive = [c \in Conns |-> FALSE]
    /\ chan = [c \in Conns |-> <<>>]
    /\ connectFired = [h \in ConnectHandlers |-> [a \in Accounts |-> 0]]
    /\ disconnectFired = [a \in Accounts |-> 0]
    /\ lastEvent = [a \in Accounts |-> "none"]
    /\ lastAdded = [a \in Accounts |-> NoConn]
    /\ addsDone = [a \in Accounts |-> 0]
    /\ wsAccount = [c \in Conns |-> NoAccount]
    /\ wsPc = [c \in Conns |-> "unused"]
    /\ outgoing = [c \in Conns |-> "unspawned"]
    /\ incoming = [c \in Conns |-> "unspawned"]
    /\ sockOpen = [c \in Conns |-> FALSE]
    /\ queue = [a \in Accounts |-> <<>>]
    /\ nextId = 1
    /\ dbUp = TRUE
    /\ dbFaults = 0
    /\ sm = IdleCall
    /\ tickPc = "idle"
    /\ batch = <<>>
    /\ pushCount = [m \in MsgIds |-> 0]
    /\ lastRet = NoRet
    /\ reg = IdleReg
    /\ regCalls = 0
    /\ regPosted = 0
    /\ accountRows = {}
    /\ profileRows = {}
    /\ keyStore = "unset"
    /\ keyBundles = [a \in Accounts |-> NoBundle]
    /\ keyTx = IdleUpload
    /\ addCall = IdleAdd
    /\ addOther = IdleAdd
    /\ rd = IdleFetch
    /\ keyCalls = 0
    /\ keyRet = NoKeyRet
    /\ bc = IdleBroadcast
    /\ authStore = {}
    /\ auth = NoRequest
    /\ pending_registrations = {}
    /\ vcall = [k \in VerifyCalls |-> IdleVerify]
    /\ spent = {}
    /\ phoneRet = NoPhoneRet
    /\ verified_phones = {}
    /\ handlers = {}
    /\ relays = <<>>
    /\ rx = [outcome |-> "none", prev |-> "none"]
    /\ presenceOn = FALSE
    /\ presenceTasks = [u \in PresenceUpdates |-> 0]
    /\ pb = IdlePresence
    /\ seen = [o \in Accounts |-> [a \in Accounts |-> "none"]]

\* The connection plane: sockets come and go, the typing relay sends.
CenterNext ==
    \/ \E c \in Conns, a \in Accounts : Upgrade(c, a)
    \/ \E c \in Conns : AddNotify(c)
    \/ \E c \in Conns : OutgoingWrite(c)
    \/ \E c \in Conns : OutgoingClosed(c)
    \/ \E c \in Conns : PeerClose(c)
    \/ \E c \in Conns : IncomingEnd(c)
    \/ \E c \in Conns : SelectDone(c)
    \/ \E a \in Accounts : RelaySend(a)

SpecCenter == Init /\ [][CenterNext]_vars

\* The connection plane with presence updates broadcast to all accounts.
BroadcastNext ==
    \/ CenterNext
    \/ BroadcastStart
    \/ \E a \in Accounts : BroadcastSend(a)
    \/ BroadcastEnd

SpecBroadcast == Init /\ [][BroadcastNext]_vars

\* The connection plane with presence broadcasts and presence queries.
PresenceNext ==
    \/ BroadcastNext
    \/ \E a \in Accounts : GetPresenceStatus(a)

SpecPresence == Init /\ [][PresenceNext]_vars

\* Presence fan-out: the handlers are registered at startup, then bob
\* watches on socket 1 while alice comes and goes on the others; every
\* connect and disconnect spawns a broadcast task.
ConvergeNext ==
    \/ HandlePresenceUpdates
    \/ \E c \in Conns : presenceOn /\ Upgrade(c, IF c = 1 THEN "bob" ELSE "alice")
    \/ \E c \in Conns : AddNotify(c)
    \/ \E c \in Conns : OutgoingWrite(c)
    \/ \E c \in Conns : OutgoingClosed(c)
    \/ \E c \in Conns : PeerClose(c)
    \/ \E c \in Conns : IncomingEnd(c)
    \/ \E c \in Conns : SelectDone(c)
    \/ \E u \in PresenceUpdates : PresenceTaskStart(u)
    \/ \E a \in Accounts : PresenceTaskSend(a)
    \/ PresenceTaskEnd

SpecConverge == Init /\ [][ConvergeNext]_vars

\* Requests through the auth middleware over a changing account store.
AuthNext ==
    \/ \E row \in AuthRows : AuthStoreUpsert(row)
    \/ \E h \in Headers, storeOk \in BOOLEAN : RequireAuth(h, storeOk)

SpecAuth == Init /\ [][AuthNext]_vars

\* Phone registration: OTP requests and verify calls, possibly overlapping.
PhoneNext ==
    \/ \E raw \in RawPhones, outcome \in OtpSendOutcomes :
          RequestPhoneRegistration(raw, outcome)
    \/ \E k \in VerifyCalls, raw \in RawPhones : VerifyStart(k, raw)
    \/ \E k \in VerifyCalls, outcome \in OtpCheckOutcomes : VerifyCheck(k, outcome)

SpecPhone == Init /\ [][PhoneNext]_vars

\* The whole phone path: OTP requests, verify calls and finalize calls of
\* any client, in any order.
PhonePathNext ==
    \/ PhoneNext
    \/ \E raw \in RawPhones, apns, gcm \in BOOLEAN : FinalizePhoneStart(raw, apns, gcm)
    \/ \E outcome \in RegistryOutcomes : FinalizePost(outcome)
    \/ \E ok \in BOOLEAN : FinalizeAccount(ok)
    \/ \E ok \in BOOLEAN : FinalizeProfile(ok)

SpecPhonePath == Init /\ [][PhonePathNext]_vars

\* The connection plane with inbound frames and the typing relay.
InboundNext ==
    \/ \E c \in Conns, a \in Accounts : Upgrade(c, a)
    \/ \E c \in Conns : AddNotify(c)
    \/ \E c \in Conns : OutgoingWrite(c)
    \/ \E c \in Conns : OutgoingClosed(c)
    \/ \E c \in Conns : PeerClose(c)
    \/ \E c \in Conns : IncomingEnd(c)
    \/ \E c \in Conns : SelectDone(c)
    \/ HandleTypingUpdates
    \/ \E c \in Conns, f \in InFrames : OnMessageReceived(c, f)
    \/ \E i \in 1..MaxRelays : TypingRelaySend(i)

SpecInbound == Init /\ [][InboundNext]_vars

\* The messaging service alone: senders, acknowledging recipients and
\* sockets that open and close, while the sender loop is not running.
QueueNext ==
    \/ \E c \in 1..MaxQueueConns, a \in Accounts : Upgrade(c, a)
    \/ \E c \in Conns : AddNotify(c)
    \/ \E c \in Conns : OutgoingClosed(c)
    \/ \E c \in Conns : PeerClose(c)
    \/ \E c \in Conns : IncomingEnd(c)
    \/ \E c \in Conns : SelectDone(c)
    \/ DbFail
    \/ DbRecover
    \/ \E a, b \in Accounts, x \in Bodies, ok \in PresenceAnswers : SendStart(a, b, x, ok)
    \/ \E ts \in Timestamps : SendInsert(ts)
    \/ \E row \in AccountRows, storeOk, gatewayOk \in BOOLEAN :
          SendWakeup(row, storeOk, gatewayOk)
    \/ \E b \in Accounts, ids \in SUBSET MsgIds : mark_delivered(b, ids)

SpecQueue == Init /\ [][QueueNext]_vars

\* The delivery pump: senders enqueue, sockets come and go, the store may
\* fail, and the sender loop drains the queue into the center.
PumpNext ==
    \/ \E c \in Conns, a \in Accounts : Upgrade(c, a)
    \/ \E c \in Conns : AddNotify(c)
    \/ \E c \in Conns : OutgoingWrite(c)
    \/ \E c \in Conns : OutgoingClosed(c)
    \/ \E c \in Conns : PeerClose(c)
    \/ \E c \in Conns : IncomingEnd(c)
    \/ \E c \in Conns : SelectDone(c)
    \/ DbFail
    \/ DbRecover
    \/ \E b \in Accounts : SendStart("alice", b, "x", TRUE)
    \/ SendInsert(1)
    \/ \E row \in AccountRows, storeOk, gatewayOk \in BOOLEAN :
          SendWakeup(row, storeOk, gatewayOk)
    \/ \E order \in AccountOrders : TickStart(order)
    \/ TickSend

SpecPump == Init /\ [][PumpNext]_vars

\* The delivery pump next to recipients that fetch their pending messages
\* over HTTP and acknowledge them with mark_delivered.
AckNext ==
    \/ \E c \in 1..MaxQueueConns, a \in Accounts : Upgrade(c, a)
    \/ \E c \in Conns : AddNotify(c)
    \/ \E c \in Conns : OutgoingWrite(c)
    \/ \E c \in Conns : OutgoingClosed(c)
    \/ \E c \in Conns : PeerClose(c)
    \/ \E c \in Conns : IncomingEnd(c)
    \/ \E c \in Conns : SelectDone(c)
    \/ \E b \in Accounts : SendStart("alice", b, "x", TRUE)
    \/ SendInsert(1)
    \/ \E row \in AccountRows, storeOk, gatewayOk \in BOOLEAN :
          SendWakeup(row, storeOk, gatewayOk)
    \/ \E b \in Accounts, ids \in SUBSET MsgIds : mark_delivered(b, ids)
    \/ \E order \in AccountOrders : TickStart(order)
    \/ TickSend

SpecAck == Init /\ [][AckNext]_vars

\* The delivery pump with a single message in flight, for liveness.
LiveNext ==
    \/ \E c \in Conns, a \in Accounts : Upgrade(c, a)
    \/ \E c \in Conns : AddNotify(c)
    \/ \E c \in Conns : OutgoingWrite(c)
    \/ \E c \in Conns : OutgoingClosed(c)
    \/ \E c \in Conns : PeerClose(c)
    \/ \E c \in Conns : IncomingEnd(c)
    \/ \E c \in Conns : SelectDone(c)
    \/ DbFail
    \/ DbRecover
    \/ \E b \in Accounts : nextId <= MaxLiveMsgs /\ SendStart("alice", b, "x", TRUE)
    \/ SendInsert(1)
    \/ \E row \in AccountRows, storeOk, gatewayOk \in BOOLEAN :
          SendWakeup(row, storeOk, gatewayOk)
    \/ \E order \in AccountOrders : TickStart(order)
    \/ TickSend

\* The interval loop keeps ticking, spawned tasks and calls in flight make
\* progress, and an outage of the store ends; peers and senders are free.
PumpFairness ==
    /\ WF_vars(\E order \in AccountOrders : TickStart(order))
    /\ WF_vars(TickSend)
    /\ WF_vars(DbRecover)
    /\ WF_vars(SendInsert(1))
    /\ WF_vars(\E row \in AccountRows, storeOk, gatewayOk \in BOOLEAN :
                  SendWakeup(row, storeOk, gatewayOk))
    /\ \A c \in Conns :
          /\ WF_vars(AddNotify(c))
          /\ WF_vars(OutgoingWrite(c))
          /\ WF_vars(OutgoingClosed(c))
          /\ WF_vars(IncomingEnd(c))
          /\ WF_vars(SelectDone(c))

FairPump == Init /\ [][LiveNext]_vars /\ PumpFairness

\* Registration: clients finalize on the username and on the phone path.
RegistrationNext ==
    \/ \E path \in RegPaths, name \in RegNames, apns, gcm, phoneValid \in BOOLEAN :
          FinalizeStart(path, name, apns, gcm, phoneValid)
    \/ \E outcome \in RegistryOutcomes : FinalizePost(outcome)
    \/ \E ok \in BOOLEAN : FinalizeAccount(ok)
    \/ \E ok \in BOOLEAN : FinalizeProfile(ok)

SpecRegistration == Init /\ [][RegistrationNext]_vars

\* The key service: uploads, prekey batches and fetches of one account's
\* clients run side by side.
KeysNext ==
    \/ \E store \in KeyStores : KeyServiceNew(store)
    \/ \E a \in Accounts, idxs \in KeyBatches, sigOk \in BOOLEAN :
          UploadKeyBundle(a, idxs, sigOk)
    \/ UploadDelete
    \/ UploadInsert
    \/ \E ok \in BOOLEAN : UploadCommit(ok)
    \/ \E a \in Accounts, idxs \in KeyBatches : AddPrekeysCheck(a, idxs)
    \/ AddPrekeysStore
    \/ \E a \in Accounts : FetchStart(a)
    \/ FetchPrekeys

SpecKeys == Init /\ [][KeysNext]_vars

\* The key service with two clients of one account adding prekey batches
\* side by side.
KeysRaceNext ==
    \/ \E store \in KeyStores : KeyServiceNew(store)
    \/ \E a \in Accounts, idxs \in KeyBatches : UploadKeyBundle(a, idxs, TRUE)
    \/ UploadDelete
    \/ UploadInsert
    \/ \E ok \in BOOLEAN : UploadCommit(ok)
    \/ \E a \in Accounts, idxs \in KeyBatches : AddPrekeysCheck(a, idxs)
    \/ AddPrekeysStore
    \/ \E a \in Accounts, idxs \in KeyBatches : AddPrekeysCheckOther(a, idxs)
    \/ AddPrekeysStoreOther

SpecKeysRace == Init /\ [][KeysRaceNext]_vars

\* ----------------------------------------------------------------------
\* Properties of the connection plane (checked under SpecCenter)
\* ----------------------------------------------------------------------

\* Socket c has been upgraded and none of its transport tasks has ended.
SocketLive(c) ==
    /\ wsPc[c] \in {"adding", "running"}
    /\ outgoing[c] # "done"
    /\ incoming[c] # "done"

\* C1: the newest socket of an account stays registered until its own
\* transport tasks end: while socket c is the latest one added for its
\* account and is still live, the center holds c as the account's
\* connection, whatever happens to the sockets it replaced.
C1_ReplacementSurvivesTeardown ==
    \A c \in Conns :
        (SocketLive(c) /\ lastAdded[wsAccount[c]] = c) =>
            connections[wsAccount[c]] = c

\* C19: broadcast_to_all never fails because of a recipient: each account
\* of the snapshot is attempted exactly once, an attempt on an open sink
\* appends the frame once to that sink and to no other, a failed attempt
\* pushes nothing and does not end the loop, and the call returns Ok.
C19_BroadcastBestEffort ==
    [][ /\ \A a \in Accounts :
              BroadcastSend(a) =>
                  /\ a \in bc.snapshot
                  /\ bc'.pending = bc.pending \ {a}
                  /\ bc'.pc = "sending"
                  /\ lastRet' = NoRet
                  /\ IF connections[a] # NoConn /\ rxAlive[connections[a]]
                        THEN /\ chan'[connections[a]] =
                                    Append(chan[connections[a]], PresenceFrame)
                             /\ \A c \in Conns \ {connections[a]} : chan'[c] = chan[c]
                             /\ a \in bc'.pushed
                        ELSE /\ chan' = chan
                             /\ bc'.pushed = bc.pushed
        /\ (bc.pc = "sending" /\ bc'.pc = "idle") =>
              /\ bc.pending = {}
              /\ lastRet' = Ret("broadcast_to_all", "Ok")
      ]_vars

C19_Witness ==
    /\ bc.pc = "sending"
    /\ bc.pending = {}
    /\ Cardinality(bc.snapshot) = 2
    /\ Cardinality(bc.pushed) = 1
    /\ \E a \in bc.pushed : chan[connections[a]] = <<PresenceFrame>>

\* C20: a remove_connection(a) issued while the center holds no entry
\* for a changes nothing and fires no disconnect handler, so a closed
\* socket produces one disconnect event.
C20_RemoveWithoutEntryIsSilent ==
    [][ \A a \in Accounts :
            ~has_connection(a) =>
                /\ connections'[a] = connections[a] \/ lastEvent'[a] = "add"
                /\ disconnectFired'[a] = disconnectFired[a]
      ]_vars

\* C21: a presence query for account a answers Online exactly when the
\* center holds a connection for a at that moment, and Offline otherwise.
C21_PresenceFollowsConnectionMap ==
    [][ \A a \in Accounts :
            GetPresenceStatus(a) =>
                /\ lastRet'.result \in {"Online", "Offline"}
                /\ lastRet'.result = "Online" <=> connections[a] # NoConn
      ]_vars

C21_Witness ==
    /\ lastRet = Ret("get_presence_status", "Offline")
    /\ \E a \in Accounts :
          /\ lastEvent[a] = "remove"
          /\ addsDone[a] > 0
          /\ connections[a] = NoConn
    /\ \E b \in Accounts : connections[b] # NoConn

\* C22: the middleware runs the downstream handler, with the account
\* attached, only for a Basic header whose text is id ':' password with
\* the id of a stored account whose hash verifies the password; every
\* other request - no header, unparsable header, id that is not a UUID,
\* unknown account, wrong password, store error - is answered 401 with
\* no handler run and no account attached.
C22_AuthFailuresAnsweredAlike ==
    [][ lastRet'.op = "require_auth" =>
          LET h == auth'.header
              verified ==
                  {r \in authStore :
                      /\ h.scheme = "Basic"
                      /\ h.enc = "ok"
                      /\ auth'.storeOk
                      /\ r.hash_ok
                      /\ \E i \in 1..Len(h.text) :
                            /\ h.text[i] = ":"
                            /\ \A j \in 1..(i-1) : h.text[j] # ":"
                            /\ UuidParse(SubSeq(h.text, 1, i - 1)) = r.id
                            /\ SubSeq(h.text, i + 1, Len(h.text)) = r.password}
          IN IF verified = {}
                THEN /\ auth'.status = 401
                     /\ ~auth'.handler_ran
                     /\ auth'.account = NoAccount
                ELSE /\ auth'.handler_ran
                     /\ \E r \in verified : auth'.account = r.id
      ]_vars

\* A store error on the lookup of a registered account with the right
\* password was answered 401.
C22_Witness ==
    /\ lastRet = Ret("require_auth", "Unauthorized")
    /\ auth.status = 401
    /\ ~auth.storeOk
    /\ auth.header = [scheme |-> "Basic", enc |-> "ok", text |-> <<"b", ":", ":">>]
    /\ \E r \in authStore : r.id = "bob"

\* C23: a verify call gets past the session check only for a phone in the
\* pending set; a verify that fails, whatever the failure, leaves the
\* pending set as it was; a verify that succeeds removes the phone, and a
\* verify for a phone verified with no request since is refused with
\* PhoneSessionNotFound.
C23_PendingPhoneLifecycle ==
    [][ /\ \A k \in VerifyCalls :
              (vcall[k].pc = "idle" /\ vcall'[k].pc = "otp") =>
                  /\ vcall'[k].phone \in pending_registrations
                  /\ vcall'[k].phone \notin spent
        /\ (phoneRet'.op = "verify" /\ phoneRet'.result = "Ok") =>
              /\ \E k \in VerifyCalls :
                    vcall[k] = [pc |-> "otp", phone |-> phoneRet'.phone]
              /\ pending_registrations' = pending_registrations \ {phoneRet'.phone}
        /\ (phoneRet'.op = "verify" /\ phoneRet'.result # "Ok") =>
              pending_registrations' = pending_registrations
        /\ (phoneRet'.op = "verify" /\ phoneRet'.phone \in spent /\ vcall' = vcall) =>
              phoneRet'.result = "PhoneSessionNotFound"
      ]_vars

\* A phone was requested and verified, and the next verify for it, with
\* no request in between, was refused.
C23_Witness ==
    /\ phoneRet = PhoneRet("verify", "+15550001", "PhoneSessionNotFound")
    /\ "+15550001" \in spent
    /\ "+15550001" \notin pending_registrations
    /\ "+15550002" \in pending_registrations

\* C24: a valid typing frame from A naming B spawns one relay for (A, B,
\* isTyping) and touches neither a sink nor the queue; the relay pushes at
\* most one frame, to the sink the map holds for B when it runs, carrying
\* A and the same isTyping; with no entry for B no sink changes; the
\* queue is never modified.
C24_TypingRelay ==
    [][ /\ \A c \in Conns, f \in InFrames :
              (/\ f.json /\ f.type = "typing" /\ f.body_ok
               /\ "typing" \in handlers
               /\ OnMessageReceived(c, f)) =>
                  /\ relays' = Append(relays,
                                      [sender_id |-> wsAccount[c],
                                       recipient_id |-> f.account_id,
                                       is_typing |-> f.is_typing])
                  /\ chan' = chan
                  /\ queue' = queue
        /\ \A i \in 1..MaxRelays :
              TypingRelaySend(i) =>
                  LET A == relays[i].sender_id
                      B == relays[i].recipient_id
                      frame == [type |-> "typing", id |-> 0, account_id |-> A,
                                is_typing |-> relays[i].is_typing]
                  IN /\ queue' = queue
                     /\ Len(relays') = Len(relays) - 1
                     /\ IF connections[B] = NoConn
                           THEN chan' = chan
                           ELSE /\ \A k \in Conns \ {connections[B]} : chan'[k] = chan[k]
                                /\ \/ chan'[connections[B]] = chan[connections[B]]
                                   \/ chan'[connections[B]] =
                                          Append(chan[connections[B]], frame)
      ]_vars

C24_Witness ==
    /\ rx.outcome = "dispatched"
    /\ relays = <<>>
    /\ connections["bob"] # NoConn
    /\ chan[connections["bob"]] =
           <<[type |-> "typing", id |-> 0, account_id |-> "alice", is_typing |-> TRUE]>>

\* C25: a frame that is not JSON, has no string type, carries a tag with
\* no handler, or makes its handler fail is dropped: the connection map,
\* the channels, the handler registry, the relays and every read loop stay
\* as they were; and a valid frame received right after a dropped one is
\* dispatched to its handler.
C25_BadFramesAreDropped ==
    [][ /\ \A c \in Conns, f \in InFrames :
              (on_message_received(f) \in DroppedOutcomes /\ OnMessageReceived(c, f)) =>
                  /\ connections' = connections
                  /\ txAlive' = txAlive
                  /\ rxAlive' = rxAlive
                  /\ chan' = chan
                  /\ handlers' = handlers
                  /\ relays' = relays
                  /\ incoming' = incoming
                  /\ sockOpen' = sockOpen
                  /\ wsPc' = wsPc
        /\ \A c \in Conns, f \in InFrames :
              (/\ rx.outcome \in DroppedOutcomes
               /\ f.json /\ f.type \in handlers /\ f.body_ok
               /\ OnMessageReceived(c, f)) =>
                  /\ rx'.outcome = "dispatched"
                  /\ Len(relays') = Len(relays) + 1
      ]_vars

C25_Witness ==
    /\ rx = [outcome |-> "dispatched", prev |-> "handler_error"]
    /\ relays # <<>>

\* C26: send_to_account for an account whose sink channel is closed
\* returns SendingFailed and leaves the entry in place; an entry leaves
\* the map only through remove_connection and changes only through a
\* replacing add_connection.
C26_ClosedSinkIsNotRemovedBySend ==
    [][ /\ \A a \in Accounts :
              (RelaySend(a) /\ connections[a] # NoConn /\ ~rxAlive[connections[a]]) =>
                  /\ lastRet' = Ret("send_to_account", "SendingFailed")
                  /\ connections' = connections
                  /\ txAlive' = txAlive
                  /\ chan' = chan
        /\ \A a \in Accounts :
              (connections[a] # NoConn /\ connections'[a] # connections[a]) =>
                  IF connections'[a] = NoConn
                     THEN /\ lastEvent'[a] = "remove"
                          /\ disconnectFired'[a] = disconnectFired[a] + 1
                     ELSE /\ lastEvent'[a] = "add"
                          /\ lastAdded'[a] = connections'[a]
      ]_vars

C26_Witness ==
    /\ lastRet = Ret("send_to_account", "SendingFailed")
    /\ \E a \in Accounts :
          /\ connections[a] # NoConn
          /\ ~rxAlive[connections[a]]
          /\ ~sockOpen[connections[a]]

\* C27: get_pending(r) holds only messages addressed to r, in the order
\* of their insertion; an insert for r appends to r's list and leaves the
\* other lists alone; mark_delivered on account b, whatever ids it names,
\* leaves the list of every other account as it was.
C27_QueuesIsolatedPerRecipient ==
    [][ /\ \A r \in Accounts :
              LET pending == get_messages_for_account(queue', r)
              IN /\ \A i \in DOMAIN pending : pending[i].recipient_id = r
                 /\ \A i, j \in DOMAIN pending :
                       i < j => pending[i].message_id < pending[j].message_id
        /\ (sm.pc = "checked" /\ nextId' = nextId + 1 /\ queue' # queue) =>
              /\ get_messages_for_account(queue', sm.recipient) =
                     Append(get_messages_for_account(queue, sm.recipient),
                            queue'[sm.recipient][Len(queue'[sm.recipient])])
              /\ \A r \in Accounts \ {sm.recipient} :
                     get_messages_for_account(queue', r) =
                         get_messages_for_account(queue, r)
        /\ \A b \in Accounts, ids \in SUBSET MsgIds :
              mark_delivered(b, ids) =>
                  \A r \in Accounts \ {b} :
                      get_messages_for_account(queue', r) =
                          get_messages_for_account(queue, r)
      ]_vars

\* Two messages were accepted, one for each account; alice's was removed
\* by mark_delivered and bob's is still pending.
C27_Witness ==
    /\ lastRet = Ret("mark_delivered", "Ok")
    /\ nextId = 3
    /\ queue["alice"] = <<>>
    /\ Len(queue["bob"]) = 1
    /\ queue["bob"][1].message_id = 1

\* C28: in a tick, a message whose send fails, with ConnectionNotFound or
\* with SendingFailed, stays in the queue and the loop goes on to the rest
\* of the batch; a message that is sent with the store up is removed.
C28_FailedSendDoesNotStopTick ==
    [][ TickSend =>
          LET m == Head(batch)
              b == m.recipient_id
              delivered == connections[b] # NoConn /\ rxAlive[connections[b]]
          IN /\ ~delivered =>
                   /\ queue' = queue
                   /\ chan' = chan
                   /\ batch' = Tail(batch)
                   /\ tickPc' = IF Tail(batch) = <<>> THEN "idle" ELSE "sending"
                   /\ lastRet'.result # "DatabaseError"
             /\ (delivered /\ dbUp) =>
                   /\ m.message_id \notin QueuedIds(queue', b)
                   /\ chan'[connections[b]] = Append(chan[connections[b]], MessageFrame(m))
                   /\ batch' = Tail(batch)
      ]_vars

\* Both messages are addressed to bob, so every batch lists message 1
\* first: its send failed and message 2 was sent and removed after it.
C28_Witness ==
    /\ lastRet = Ret("tick", "Ok")
    /\ Len(queue["bob"]) = 1
    /\ queue["bob"][1].message_id = 1
    /\ queue["alice"] = <<>>
    /\ nextId = 3
    /\ pushCount[1] = 0
    /\ pushCount[2] = 1

\* C29: when the remove after a successful send fails, the tick ends in
\* that step with the database error: the rest of the batch is dropped,
\* so no later message of the batch is sent or removed in this tick.
C29_RemoveFailureHaltsTick ==
    [][ (/\ TickSend
         /\ connections[Head(batch).recipient_id] # NoConn
         /\ rxAlive[connections[Head(batch).recipient_id]]
         /\ ~dbUp) =>
            /\ lastRet' = Ret("tick", "DatabaseError")
            /\ tickPc' = "idle"
            /\ batch' = <<>>
            /\ queue' = queue
            /\ \A id \in MsgIds :
                  id # Head(batch).message_id => pushCount'[id] = pushCount[id]
      ]_vars

\* Message 2 was pushed while the store was down and is still queued, the
\* tick returned the error, and message 1 of the same batch was not sent.
C29_Witness ==
    /\ lastRet = Ret("tick", "DatabaseError")
    /\ tickPc = "idle"
    /\ pushCount[2] = 1
    /\ pushCount[1] = 0
    /\ 2 \in QueuedIds(queue, "alice")
    /\ 1 \in QueuedIds(queue, "bob")
    /\ connections["bob"] # NoConn

\* C30: a tick whose get_all_messages fails sends nothing and removes
\* nothing, and every tick that ends, with Ok or with an error, leaves the
\* sender loop waiting for its next tick.
C30_FailedTickKeepsLoopAlive ==
    [][ /\ (\E order \in AccountOrders : TickStart(order)) /\ ~dbUp =>
              /\ lastRet' = Ret("tick", "DatabaseError")
              /\ chan' = chan
              /\ queue' = queue
              /\ pushCount' = pushCount
        /\ lastRet'.op = "tick" => tickPc' = "idle"
        /\ tickPc' \in {"idle", "sending"}
      ]_vars

\* The store is down, the tick returned its error with a message queued
\* and never pushed, and the loop is ready for the next tick.
C30_Witness ==
    /\ lastRet = Ret("tick", "DatabaseError")
    /\ tickPc = "idle"
    /\ \A id \in MsgIds : pushCount[id] = 0
    /\ \E b \in Accounts : queue[b] # <<>> /\ connections[b] # NoConn

\* C31: for every add_connection(a, s), all registered connect handlers
\* have run for a before a send_to_account of another caller pushes
\* bytes into s: no frame enters a sink whose add_connection has not yet
\* gone through its handler loop.
C31_ConnectHandlersBeforeSends ==
    [][ \A c \in Conns :
            Len(chan'[c]) > Len(chan[c]) => wsPc[c] # "adding"
      ]_vars

\* C32: on the phone path a create-account transaction is sent to the
\* registry, and a local account is written, only for a phone number for
\* which verify_phone_registration has succeeded before.
C32_FinalizePhoneRequiresVerify ==
    [][ reg.path = "phone" =>
            /\ regPosted' > regPosted => reg.name \in verified_phones
            /\ accountRows' # accountRows => reg.name \in verified_phones
      ]_vars

\* C33: no accepted message is lost on connection teardown: a message
\* frame leaves a connection's outbound channel only by being written to
\* the open socket, unless the message is still in the recipient's queue.
C33_NoMessageLostOnTeardown ==
    [][ \A c \in Conns : \A i \in DOMAIN chan[c] :
            LET f == chan[c][i]
            IN (f.type = "message" /\ \A j \in DOMAIN chan'[c] : chan'[c][j] # f) =>
                   \/ sockOpen[c] /\ i = 1
                   \/ f.id \in QueuedIds(queue', wsAccount[c])
      ]_vars

\* C34: whenever send_message returns a receipt without having invoked
\* the wake-up notification, the recipient held a connection at the moment
\* the message was inserted into the queue.
C34_NoWakeupImpliesConnectedAtInsert ==
    [][ (lastRet'.op = "send_message" /\ lastRet'.result = "Ok"
            /\ lastRet'.wakeups = 0) =>
            /\ sm.pc = "checked"
            /\ has_connection(sm.recipient)
      ]_vars

\* C35: the sender loop never pushes to a sink a message that the
\* recipient has already removed with mark_delivered: a message is pushed
\* only while it is still in its recipient's queue.
C35_NoPushAfterMarkDelivered ==
    [][ \A id \in MsgIds :
            pushCount'[id] > pushCount[id] =>
                \E b \in Accounts : id \in QueuedIds(queue, b)
      ]_vars

\* No socket is between two steps of its set-up or teardown, no presence
\* task is spawned or running, and every channel is drained.
PresenceSettled ==
    /\ \A c \in Conns :
          /\ wsPc[c] \in {"unused", "running", "done"}
          /\ wsPc[c] = "running" => SocketLive(c) /\ sockOpen[c]
          /\ wsPc[c] = "done" => outgoing[c] = "done" /\ incoming[c] = "done"
          /\ chan[c] = <<>>
    /\ PendingPresenceTasks(presenceTasks) = 0
    /\ pb.pc = "idle"

\* C36: presence frames converge to the truth: once the connection state
\* of a has stopped changing and every presence task has run, the last
\* presence frame about a that a continuously connected observer received
\* says online exactly when has_connection(a).
C36_PresenceFramesConverge ==
    \A o, a \in Accounts :
        (/\ PresenceSettled
         /\ presenceOn
         /\ o # a
         /\ \E c \in Conns : wsAccount[c] = o /\ connections[o] = c /\ SocketLive(c)
         /\ Cardinality({c \in Conns : wsAccount[c] = o}) = 1
         /\ seen[o][a] # "none") =>
            (seen[o][a] = "online" <=> has_connection(a))

\* C37: local registration state is all-or-nothing: whenever no finalize
\* call is in flight, the accounts that have a row in the account store are
\* exactly the accounts that have a default profile row.
C37_AccountIffProfile ==
    reg.pc = "idle" =>
        {r.id : r \in accountRows} = {p.account_id : p \in profileRows}

\* Index idx of account a is stored with a key that an add_prekeys call
\* supplied (the prekeys of an upload carry the upload's own key).
StoredByAddPrekeys(a, idx) ==
    \E i \in DOMAIN keyBundles[a].prekeys :
        /\ keyBundles[a].prekeys[i].key_idx = idx
        /\ keyBundles[a].prekeys[i].key # keyBundles[a].prekeys[i].gen

\* C38: the duplicate-prekey guard holds under concurrency: when two
\* add_prekeys calls for one account overlap with batches that share a
\* key_idx not yet stored, the call that stores second does not succeed
\* and leaves the key the first one stored under that index untouched.
C38_ConcurrentAddPrekeysGuarded ==
    [][ /\ (/\ AddPrekeysStore
            /\ \E j \in DOMAIN addCall.idxs :
                  StoredByAddPrekeys(addCall.account, addCall.idxs[j])) =>
               /\ keyRet'.result # "Ok"
               /\ keyBundles' = keyBundles
        /\ (/\ AddPrekeysStoreOther
            /\ \E j \in DOMAIN addOther.idxs :
                  StoredByAddPrekeys(addOther.account, addOther.idxs[j])) =>
               /\ keyRet'.result # "Ok"
               /\ keyBundles' = keyBundles
      ]_vars

\* C39: a send_message to a recipient_id for which the account store holds
\* no account leaves the message queue unchanged: when the call ends, the
\* message it stamped is not stored in the recipient's queue.
C39_UnknownRecipientNotQueued ==
    [][ \A storeOk, gatewayOk \in BOOLEAN :
           SendWakeup("absent", storeOk, gatewayOk) =>
               sm.message_id \notin QueuedIds(queue', sm.recipient)
      ]_vars

\* C40: every account that finalize accepted (one of the APNS and GCM
\* tokens is enough) can be woken: with the account store answering, the
\* wake-up of such an account fails only when the gateway rejects, so the
\* send_message to an absent recipient registered with a GCM token alone
\* returns its receipt.
C40_AcceptedAccountCanBeWoken ==
    [][ \A row \in AccountRows \ {"absent"}, gatewayOk \in BOOLEAN :
           (SendWakeup(row, TRUE, gatewayOk) /\ lastRet'.result # "Ok") =>
               ~gatewayOk
      ]_vars

\* C6: has_connection(id) is true exactly when the latest of the
\* add_connection / remove_connection events of id is an add.
C6_HasConnectionIffLastEventAdd ==
    \A a \in Accounts : has_connection(a) <=> lastEvent[a] = "add"

C6_Witness ==
    \E a \in Accounts :
        /\ disconnectFired[a] > 0
        /\ lastEvent[a] = "add"
        /\ has_connection(a)

\* C7: an add_connection(a, s2) that follows add_connection(a, s1) without
\* a remove in between closes the channel of s1 and leaves a connected,
\* and every connect handler has fired once per completed add_connection.
C7_SecondAddClosesFirst ==
    [][ /\ \A a \in Accounts :
              (connections[a] # NoConn /\ connections'[a] \notin {NoConn, connections[a]})
                  => (~txAlive'[connections[a]] /\ has_connection(a)')
        /\ \A a \in Accounts, h \in ConnectHandlers :
              connectFired'[h][a] = addsDone'[a]
      ]_vars

C7_Witness ==
    \E a \in Accounts :
        /\ addsDone[a] = 2
        /\ disconnectFired[a] = 0
        /\ wsAccount[1] = a /\ connections[a] = 2
        /\ ~txAlive[1]
        /\ \A h \in ConnectHandlers : connectFired[h][a] = 2

\* C8: the center holds at most one sender half per account, and every
\* push of send_to_account goes into the sink of the latest add_connection
\* of that account and into no other.
C8_SendRoutesToLatestSink ==
    [][ /\ \A a \in Accounts :
              Cardinality({c \in Conns : wsAccount[c] = a /\ txAlive'[c]}) <= 1
        /\ \A c \in Conns :
              Len(chan'[c]) > Len(chan[c]) => c = lastAdded[wsAccount[c]]
      ]_vars

C8_Witness ==
    /\ wsAccount[1] = wsAccount[2]
    /\ rxAlive[1] /\ chan[1] = <<>>
    /\ connections[wsAccount[2]] = 2
    /\ chan[2] # <<>>
    /\ lastRet = Ret("send_to_account", "Ok")

\* C9: send_to_account for an account without a connection returns
\* ConnectionNotFound, pushes nothing and leaves the map as it is.
C9_SendWithoutConnection ==
    [][ \A a \in Accounts :
            (RelaySend(a) /\ ~has_connection(a)) =>
                /\ lastRet' = Ret("send_to_account", "ConnectionNotFound")
                /\ chan' = chan
                /\ connections' = connections
      ]_vars

C9_Witness ==
    /\ lastRet = Ret("send_to_account", "ConnectionNotFound")
    /\ \E a \in Accounts : has_connection(a) /\ chan[connections[a]] = <<>>

\* ----------------------------------------------------------------------
\* Properties of the messaging service (checked under SpecQueue)
\* ----------------------------------------------------------------------

\* C4: when send_message(A, B, x) returns a receipt and the message was
\* not removed from the queue in between, get_pending(B) holds exactly one
\* message with the receipt's id, and that message carries sender A,
\* recipient B, body x and the receipt's timestamp.
C4_ReceiptMatchesQueuedMessage ==
    [][ (lastRet'.op = "send_message" /\ lastRet'.result = "Ok" /\ ~sm.removed) =>
            LET pending == get_messages_for_account(queue', sm.recipient)
                hits == {i \in DOMAIN pending :
                            pending[i].message_id = lastRet'.message_id}
            IN /\ Cardinality(hits) = 1
               /\ \A i \in hits :
                     pending[i] = Message(lastRet'.message_id, sm.sender, sm.recipient,
                                          sm.body, lastRet'.timestamp)
      ]_vars

C4_Witness ==
    /\ lastRet.op = "send_message" /\ lastRet.result = "Ok"
    /\ \E b \in Accounts :
          /\ Len(queue[b]) = 2
          /\ queue[b][2].message_id = lastRet.message_id
          /\ queue[b][2].sender_id # b
          /\ queue[b][2].body # queue[b][1].body

\* C5: a send_message to a recipient without a connection enqueues the
\* message and does not return before the wake-up; the call invokes the
\* wake-up exactly once; and when the wake-up fails (account store error,
\* no account, no APNS token, gateway rejection) the call returns
\* NotificationError while the message stays in the recipient's queue.
C5_OfflineSendWakesOnce ==
    [][ /\ (sm.pc = "checked" /\ ~sm.present /\ dbUp /\ sm'.pc # "checked") =>
              /\ sm'.pc = "inserted"
              /\ lastRet'.op # "send_message"
              /\ \E i \in DOMAIN queue'[sm.recipient] :
                    /\ queue'[sm.recipient][i].message_id = sm'.message_id
                    /\ queue'[sm.recipient][i].body = sm.body
        /\ (sm.pc = "inserted" /\ sm'.pc # "inserted") =>
              /\ lastRet'.op = "send_message"
              /\ lastRet'.wakeups = 1
        /\ \A row \in AccountRows, storeOk, gatewayOk \in BOOLEAN :
              (SendWakeup(row, storeOk, gatewayOk)
                  /\ (row # "apns" \/ ~storeOk \/ ~gatewayOk)) =>
                  /\ lastRet'.result = "NotificationError"
                  /\ sm.removed \/ sm.message_id \in QueuedIds(queue', sm.recipient)
      ]_vars

C5_Witness ==
    /\ lastRet.op = "send_message"
    /\ lastRet.result = "NotificationError"
    /\ lastRet.wakeups = 1
    /\ \E b \in Accounts : ~has_connection(b) /\ nextId - 1 \in QueuedIds(queue, b)

\* C10: mark_delivered(B, ids) leaves in B's queue exactly the messages it
\* held before whose id is not in ids, in their order, touches no other
\* queue, returns Ok whether or not the ids are queued, and a second call
\* with the same ids changes nothing.
C10_MarkDeliveredRemovesNamed ==
    [][ \A b \in Accounts, ids \in SUBSET MsgIds :
            (mark_delivered(b, ids) /\ dbUp) =>
                LET pre == get_messages_for_account(queue, b)
                    post == get_messages_for_account(queue', b)
                    kept == {i \in DOMAIN pre : pre[i].message_id \notin ids}
                IN /\ lastRet' = Ret("mark_delivered", "Ok")
                   /\ Len(post) = Cardinality(kept)
                   /\ \A i \in kept : post[Cardinality({j \in kept : j <= i})] = pre[i]
                   /\ \A o \in Accounts \ {b} : queue'[o] = queue[o]
                   /\ remove_messages(queue', b, ids) = queue'
      ]_vars

C10_Witness ==
    /\ lastRet = Ret("mark_delivered", "Ok")
    /\ dbFaults = 0 /\ nextId = 3 /\ sm.pc = "idle"
    /\ \E b \in Accounts :
          /\ Len(queue[b]) = 1
          /\ \A o \in Accounts \ {b} : queue[o] = <<>>

\* C12: send_message treats the recipient as present when the presence
\* lookup says so and when the lookup fails; a call that found the
\* recipient present and whose insert succeeded enqueues the message and
\* returns the receipt without any wake-up notification.
C12_PresentOrLookupFailureNoWakeup ==
    [][ /\ \A a, b \in Accounts, x \in Bodies, ok \in PresenceAnswers :
              (SendStart(a, b, x, ok) /\ (~ok \/ has_connection(b))) => sm'.present
        /\ (sm.pc = "checked" /\ sm.present /\ dbUp /\ sm'.pc # "checked") =>
              /\ lastRet'.op = "send_message" /\ lastRet'.result = "Ok"
              /\ lastRet'.wakeups = 0
              /\ lastRet'.message_id \in QueuedIds(queue', sm.recipient)
              /\ sm'.pc = "idle"
      ]_vars

C12_Witness ==
    /\ \A c \in Conns : wsPc[c] = "unused"
    /\ lastRet.op = "send_message" /\ lastRet.result = "Ok"
    /\ lastRet.wakeups = 0
    /\ \E b \in Accounts : lastRet.message_id \in QueuedIds(queue, b)

\* C13: when insert_message fails, send_message returns DatabaseError
\* without a receipt, sends no wake-up notification even for an absent
\* recipient, and leaves the queue unchanged.
C13_InsertFailureNoWakeup ==
    [][ (sm.pc = "checked" /\ ~dbUp /\ sm'.pc # "checked") =>
            /\ lastRet' = SendError("DatabaseError", 0)
            /\ lastRet'.message_id = 0 /\ lastRet'.timestamp = 0
            /\ queue' = queue
            /\ sm'.pc = "idle"
      ]_vars

C13_Witness ==
    /\ lastRet.op = "send_message" /\ lastRet.result = "DatabaseError"
    /\ lastRet.wakeups = 0
    /\ \A a \in Accounts : ~has_connection(a)
    /\ \E b \in Accounts : queue[b] # <<>>

\* ----------------------------------------------------------------------
\* Properties of the sender loop (checked under SpecPump and FairPump)
\* ----------------------------------------------------------------------

\* C2: over any sequence of ticks, including ticks that halt because
\* remove_messages failed, no message id is pushed into a sink more
\* than once.
C2_AtMostOncePush ==
    \A m \in MsgIds : pushCount[m] <= 1

\* The peer of the latest socket of account b still holds it open.
PeerConnected(b) ==
    /\ lastAdded[b] # NoConn
    /\ sockOpen[lastAdded[b]]

\* C3: a message accepted into the queue of b is eventually pushed into a
\* sink once b is connected and stays connected, given that the loop
\* keeps ticking and an outage of the store ends.
C3_EventualDelivery ==
    \A b \in Accounts, m \in 1..MaxLiveMsgs :
        (m \in QueuedIds(queue, b)) ~> (pushCount[m] > 0 \/ ~PeerConnected(b))

\* C11: under any interleaving of send_message inserts with ticks, a
\* message leaves the queue only in the step of the tick that pushes it,
\* and that message is the head of the tick's get_all batch; a message
\* inserted meanwhile stays queued for a later tick.
C11_NoMessageLostUnsent ==
    [][ \A b \in Accounts :
            \A m \in QueuedIds(queue, b) \ QueuedIds(queue', b) :
                /\ tickPc = "sending"
                /\ Head(batch).message_id = m
                /\ Head(batch).recipient_id = b
                /\ pushCount'[m] = pushCount[m] + 1
      ]_vars

C11_Witness ==
    /\ lastRet = Ret("tick", "Ok")
    /\ pushCount[1] = 1 /\ pushCount[2] = 0
    /\ \E b \in Accounts :
          /\ has_connection(b) /\ rxAlive[connections[b]]
          /\ QueuedIds(queue, b) = {2}
          /\ \A o \in Accounts \ {b} : queue[o] = <<>>

\* ----------------------------------------------------------------------
\* Properties of registration (checked under SpecRegistration)
\* ----------------------------------------------------------------------

\* C14: finalize (username and phone path) without APNS and without GCM
\* token returns MissingPushToken before any registry traffic and writes
\* no account and no profile row; with at least one token it does not
\* return MissingPushToken.
C14_MissingPushTokenBeforeRegistry ==
    [][ \A path \in RegPaths, name \in RegNames, apns, gcm, phoneValid \in BOOLEAN :
            FinalizeStart(path, name, apns, gcm, phoneValid) =>
                IF ~apns /\ ~gcm
                   THEN /\ lastRet' = Ret("finalize_registration", "MissingPushToken")
                        /\ reg'.pc = "idle"
                        /\ regPosted' = regPosted
                        /\ accountRows' = accountRows
                        /\ profileRows' = profileRows
                   ELSE /\ lastRet'.result # "MissingPushToken"
                        /\ (path = "username" \/ phoneValid) => reg'.pc = "checked"
      ]_vars

C14_Witness ==
    /\ lastRet = Ret("finalize_registration", "MissingPushToken")
    /\ regCalls = 2
    /\ regPosted = 1
    /\ \E r \in accountRows : r.id = 1 /\ ~r.apns /\ r.gcm

\* C15: when the registry rejects or fails the create-account transaction
\* (or the transaction cannot be signed), finalize returns
\* ProcessingFailed and the call ends there: no account row and no
\* profile row is written for the attempt.
C15_RegistryFailureWritesNothing ==
    [][ /\ \A outcome \in RegistryOutcomes \ {"accepted"} :
              FinalizePost(outcome) =>
                  /\ lastRet' = Ret("finalize_registration", "ProcessingFailed")
                  /\ reg'.pc = "idle"
                  /\ accountRows' = accountRows
                  /\ profileRows' = profileRows
        /\ \A r \in (accountRows' \ accountRows) : reg.pc = "posted" /\ r.id = reg.id
        /\ \A r \in (profileRows' \ profileRows) : reg.pc = "saved" /\ r.account_id = reg.id
      ]_vars

C15_Witness ==
    /\ lastRet = Ret("finalize_registration", "ProcessingFailed")
    /\ regPosted = 2 /\ regCalls = 2
    /\ \A r \in accountRows : r.id = 1
    /\ \A r \in profileRows : r.account_id = 1
    /\ accountRows # {}

\* ----------------------------------------------------------------------
\* Properties of the key service (checked under SpecKeys)
\* ----------------------------------------------------------------------

\* C16: add_prekeys(a, P) with an index of P already stored for a fails
\* with DuplicatePrekey naming the first colliding index in P's order and
\* stores nothing: the call ends and the account's prekeys are unchanged.
C16_DuplicatePrekeyRejectsBatch ==
    [][ \A a \in Accounts, idxs \in KeyBatches :
            (/\ AddPrekeysCheck(a, idxs)
             /\ keyBundles[a] # NoBundle
             /\ \E j \in DOMAIN idxs : idxs[j] \in IdxsOf(keyBundles[a].prekeys)) =>
                /\ keyRet'.op = "add_prekeys"
                /\ keyRet'.result = "DuplicatePrekey"
                /\ \E j \in DOMAIN idxs :
                      /\ idxs[j] = keyRet'.idx
                      /\ idxs[j] \in IdxsOf(keyBundles[a].prekeys)
                      /\ \A k \in 1..(j - 1) : idxs[k] \notin IdxsOf(keyBundles[a].prekeys)
                /\ keyBundles' = keyBundles
                /\ addCall'.pc = "idle"
      ]_vars

C16_Witness ==
    /\ keyRet = KeyRet("add_prekeys", "DuplicatePrekey", 2, NoBundle)
    /\ \E a \in Accounts :
          /\ Len(keyBundles[a].prekeys) = 2
          /\ keyBundles[a].prekeys[1].key_idx = 1
          /\ keyBundles[a].prekeys[2].key_idx = 2

\* C17: the key_idx values stored for an account are pairwise distinct
\* after any sequence of successful upload and add_prekeys calls.
C17_StoredKeyIdxDistinct ==
    \A a \in Accounts :
        \A i, j \in DOMAIN keyBundles[a].prekeys :
            i # j => keyBundles[a].prekeys[i].key_idx # keyBundles[a].prekeys[j].key_idx

====
